---------------------------- MODULE Spec2Model ----------------------------
(***************************************************************************)
(* A model of the medicare_rebuild ETL pipeline: src/main.py (the          *)
(* orchestration), src/utils/db_utils.py (DatabaseManager),                *)
(* src/utils/api_utils.py (RestAdapter, MSGraphApi) and                    *)
(* src/utils/dataframe_utils.py (the frame functions).                     *)
(*                                                                         *)
(* A data frame is a sequence of rows; a row is a function from column     *)
(* names to cell values.  A text cell is a record [t |-> "str", v |-> cs]  *)
(* with cs the sequence of its characters; a missing cell is None or NaN.  *)
(* Surrogate ids and natural keys are integers.                            *)
(***************************************************************************)
EXTENDS Integers, Sequences, FiniteSets, TLC

VARIABLES
    pc,        \* position of __main__ in Program (1-based), or Len(Program)+1
    failed,    \* TRUE once an unhandled exception ended the process
    frames,    \* local data frames of the run, by variable name
    db,        \* destination database: table name -> sequence of rows
    engines,   \* every engine created in the run, in creation order
    log,       \* history of the I/O calls issued, in order
    last,      \* outcome record of the last DatabaseManager call
    arg,       \* argument of the function under study (function-level specs)
    ret,       \* its result
    stage      \* "call" before the function ran, "done" after

vars == <<pc, failed, frames, db, engines, log, last, arg, ret, stage>>
pipeVars == <<pc, failed, frames, db, engines, log, last>>
fnVars == <<arg, ret, stage>>

---------------------------------------------------------------------------
(* Cell values and their text rendering, str(x).                           *)

None == [t |-> "None", v |-> <<>>]
NaN == [t |-> "nan", v |-> <<>>]
Str(cs) == [t |-> "str", v |-> cs]

\* Python's str(x): a text is itself, None is 'None', float nan is 'nan'.
PyStr(x) ==
    IF x.t = "str" THEN x.v
    ELSE IF x.t = "None" THEN <<"N", "o", "n", "e">>
    ELSE <<"n", "a", "n">>

\* A text of n copies of the character c.
Rep(c, n) == [i \in 1..n |-> c]

UpperToLower ==
        ("A" :> "a") @@ ("B" :> "b") @@ ("C" :> "c") @@ ("D" :> "d") @@ ("E" :> "e") @@ ("F" :> "f")
        @@ ("G" :> "g") @@ ("H" :> "h") @@ ("I" :> "i") @@ ("J" :> "j") @@ ("K" :> "k") @@ ("L" :> "l")
        @@ ("M" :> "m") @@ ("N" :> "n") @@ ("O" :> "o") @@ ("P" :> "p") @@ ("Q" :> "q") @@ ("R" :> "r")
        @@ ("S" :> "s") @@ ("T" :> "t") @@ ("U" :> "u") @@ ("V" :> "v") @@ ("W" :> "w") @@ ("X" :> "x")
        @@ ("Y" :> "y") @@ ("Z" :> "z")

\* str.lower()
Lower(cs) == [i \in 1..Len(cs) |-> IF cs[i] \in DOMAIN UpperToLower THEN UpperToLower[cs[i]] ELSE cs[i]]

LowerLetters == {UpperToLower[c] : c \in DOMAIN UpperToLower}
UpperLetters == DOMAIN UpperToLower
Digits == {"0", "1", "2", "3", "4", "5", "6", "7", "8", "9"}

\* \w: a letter, a digit or the underscore.
IsWordChar(c) == c \in LowerLetters \cup UpperLetters \cup Digits \cup {"_"}

\* \b between position p and position p + 1 of cs (p in 0..Len(cs)): exactly
\* one of the two neighbours is a word character.
WordBoundary(cs, p) ==
    (p >= 1 /\ IsWordChar(cs[p])) # (p < Len(cs) /\ IsWordChar(cs[p + 1]))

\* re.search(r'\b' + re.escape(keyword) + r'\b', cs)
SearchWord(keyword, cs) ==
    \E k \in 0..(Len(cs) - Len(keyword)) :
        /\ SubSeq(cs, k + 1, k + Len(keyword)) = keyword
        /\ WordBoundary(cs, k)
        /\ WordBoundary(cs, k + Len(keyword))

\* keyword_search: keywords is the dictionary in iteration order, a sequence
\* of [name, keyword]; the value is lower-cased, the keyword taken as it is.
RECURSIVE keyword_search(_, _, _)
keyword_search(value, keywords, keep_original) ==
    IF keywords = <<>> THEN (IF keep_original THEN Str(value) ELSE NaN)
    ELSE IF SearchWord(Head(keywords).keyword, Lower(value)) THEN Str(Head(keywords).name)
    ELSE keyword_search(value, Tail(keywords), keep_original)

\* all(re.search(...) for keyword in keyword_set) for some keyword_set.
GroupMatches(keyword_sets, cs) ==
    \E g \in 1..Len(keyword_sets) :
        \A k \in 1..Len(keyword_sets[g]) : SearchWord(keyword_sets[g][k], cs)

\* keyword_list_search: keywords is a sequence of [name, keyword_sets].
RECURSIVE keyword_list_search(_, _, _)
keyword_list_search(value, keywords, keep_original) ==
    IF keywords = <<>> THEN (IF keep_original THEN Str(value) ELSE NaN)
    ELSE IF GroupMatches(Head(keywords).keyword_sets, Lower(value))
    THEN Str(Head(keywords).name)
    ELSE keyword_list_search(value, Tail(keywords), keep_original)

LowerToUpper ==
        ("a" :> "A") @@ ("b" :> "B") @@ ("c" :> "C") @@ ("d" :> "D") @@ ("e" :> "E") @@ ("f" :> "F") @@ ("g" :> "G") @@ ("h" :> "H") @@ ("i" :> "I") @@ ("j" :> "J") @@ ("k" :> "K") @@ ("l" :> "L") @@ ("m" :> "M")
        @@ ("n" :> "N") @@ ("o" :> "O") @@ ("p" :> "P") @@ ("q" :> "Q") @@ ("r" :> "R") @@ ("s" :> "S") @@ ("t" :> "T") @@ ("u" :> "U") @@ ("v" :> "V") @@ ("w" :> "W") @@ ("x" :> "X") @@ ("y" :> "Y") @@ ("z" :> "Z")

\* str.upper()
Upper(cs) == [i \in 1..Len(cs) |-> IF cs[i] \in DOMAIN LowerToUpper THEN LowerToUpper[cs[i]] ELSE cs[i]]

Whitespace == {" ", "\t", "\n"}

\* str.strip(): leading and trailing whitespace removed.
RECURSIVE LStrip(_)
LStrip(cs) == IF cs # <<>> /\ Head(cs) \in Whitespace THEN LStrip(Tail(cs)) ELSE cs

RECURSIVE RStrip(_)
RStrip(cs) ==
    IF cs # <<>> /\ cs[Len(cs)] \in Whitespace THEN RStrip(SubSeq(cs, 1, Len(cs) - 1)) ELSE cs

Strip(cs) == RStrip(LStrip(cs))

\* The length of the longest prefix of cs made of characters of S.
RECURSIVE RunLen(_, _)
RunLen(cs, S) == IF cs # <<>> /\ Head(cs) \in S THEN 1 + RunLen(Tail(cs), S) ELSE 0

\* cs from position n + 1 on.
Drop(cs, n) == SubSeq(cs, n + 1, Len(cs))

\* ','.join(codes)
RECURSIVE JoinComma(_)
JoinComma(codes) ==
    IF codes = <<>> THEN <<>>
    ELSE IF Len(codes) = 1 THEN codes[1]
    ELSE codes[1] \o <<",">> \o JoinComma(Tail(codes))

DigitVal ==
    ("0" :> 0) @@ ("1" :> 1) @@ ("2" :> 2) @@ ("3" :> 3) @@ ("4" :> 4)
    @@ ("5" :> 5) @@ ("6" :> 6) @@ ("7" :> 7) @@ ("8" :> 8) @@ ("9" :> 9)

\* int(ds) for a non-empty text of digits.
RECURSIVE ToInt(_)
ToInt(ds) ==
    IF ds = <<>> THEN 0
    ELSE ToInt(SubSeq(ds, 1, Len(ds) - 1)) * 10 + DigitVal[ds[Len(ds)]]

\* An integer result.
IntVal(n) == [t |-> "int", n |-> n]

\* a in b, for two texts.
IsInfix(a, b) ==
    \E k \in 0..(Len(b) - Len(a)) : SubSeq(b, k + 1, k + Len(a)) = a

\* The row r without the column col / restricted to the columns cols.
DropCol(r, col) == [c \in (DOMAIN r) \ {col} |-> r[c]]
Project(r, cols) == [c \in cols |-> r[c]]

\* The rows of a frame as a set; the sequence of the values f(x) for x in s.
Range(s) == {s[i] : i \in 1..Len(s)}
RECURSIVE Concat(_)
Concat(ss) == IF ss = <<>> THEN <<>> ELSE Head(ss) \o Concat(Tail(ss))

\* All sequences over S of length at most n.
SeqUpTo(S, n) == UNION {[1..k -> S] : k \in 0..n}

\* The first k rows of s, for every k up to n.
Prefixes(s, n) == {SubSeq(s, 1, k) : k \in 0..(IF n < Len(s) THEN n ELSE Len(s))}

---------------------------------------------------------------------------
(* check_patient_db_constraints: nine successive length filters.           *)

\* df[df[col].apply(lambda x: len(str(x)) <= limit)]
KeepLen(df, col, limit) == SelectSeq(df, LAMBDA x : Len(PyStr(x[col])) <= limit)

\* A faulty variant: the state check is applied with the SSN's limit.
check_patient_db_constraints_wrong_limit(df) ==
    LET d1 == KeepLen(df, "phone_number", 11)
        d2 == KeepLen(d1, "social_security", 9)
        d3 == KeepLen(d2, "temp_state", 9)
        d4 == KeepLen(d3, "zipcode", 5)
        d5 == KeepLen(d4, "emergency_phone_number", 11)
        d6 == KeepLen(d5, "emergency_phone_number2", 11)
        d7 == KeepLen(d6, "medicare_beneficiary_id", 11)
        d8 == KeepLen(d7, "primary_payer_id", 30)
    IN  KeepLen(d8, "secondary_payer_id", 30)

\* A faulty variant: an over-long phone number is cut to 11 characters and the
\* row kept, instead of the row being dropped.
check_patient_db_constraints_truncating(df) ==
    LET cut(r) == [r EXCEPT !["phone_number"] =
                       IF Len(PyStr(@)) <= 11 THEN @ ELSE Str(SubSeq(PyStr(@), 1, 11))]
        d1 == [i \in 1..Len(df) |-> cut(df[i])]
        d2 == KeepLen(d1, "social_security", 9)
        d3 == KeepLen(d2, "temp_state", 2)
        d4 == KeepLen(d3, "zipcode", 5)
        d5 == KeepLen(d4, "emergency_phone_number", 11)
        d6 == KeepLen(d5, "emergency_phone_number2", 11)
        d7 == KeepLen(d6, "medicare_beneficiary_id", 11)
        d8 == KeepLen(d7, "primary_payer_id", 30)
    IN  KeepLen(d8, "secondary_payer_id", 30)

\* A faulty variant: a missing value passes every check, the state check
\* included, instead of being measured by the length of its text.
check_patient_db_constraints_skip_missing(df) ==
    LET keep(d, col, limit) ==
            SelectSeq(d, LAMBDA x : x[col].t # "str" \/ Len(PyStr(x[col])) <= limit)
        d1 == keep(df, "phone_number", 11)
        d2 == keep(d1, "social_security", 9)
        d3 == keep(d2, "temp_state", 2)
        d4 == keep(d3, "zipcode", 5)
        d5 == keep(d4, "emergency_phone_number", 11)
        d6 == keep(d5, "emergency_phone_number2", 11)
        d7 == keep(d6, "medicare_beneficiary_id", 11)
        d8 == keep(d7, "primary_payer_id", 30)
    IN  keep(d8, "secondary_payer_id", 30)

check_patient_db_constraints(df) ==
    LET d1 == KeepLen(df, "phone_number", 11)
        d2 == KeepLen(d1, "social_security", 9)
        d3 == KeepLen(d2, "temp_state", 2)
        d4 == KeepLen(d3, "zipcode", 5)
        d5 == KeepLen(d4, "emergency_phone_number", 11)
        d6 == KeepLen(d5, "emergency_phone_number2", 11)
        d7 == KeepLen(d6, "medicare_beneficiary_id", 11)
        d8 == KeepLen(d7, "primary_payer_id", 30)
    IN  KeepLen(d8, "secondary_payer_id", 30)

\* The nine checked columns and the destination schema's length limits.
CheckCols ==
    {"phone_number", "social_security", "temp_state", "zipcode",
     "emergency_phone_number", "emergency_phone_number2",
     "medicare_beneficiary_id", "primary_payer_id", "secondary_payer_id"}

ColumnLimit ==
    [phone_number |-> 11, social_security |-> 9, temp_state |-> 2, zipcode |-> 5,
     emergency_phone_number |-> 11, emergency_phone_number2 |-> 11,
     medicare_beneficiary_id |-> 11, primary_payer_id |-> 30,
     secondary_payer_id |-> 30]

\* The row of test_check_patient_db_constraints: a 10-digit phone number.
TestRow ==
    [phone_number |-> Str(Rep("1", 10)), social_security |-> Str(Rep("1", 9)),
     temp_state |-> Str(<<"C", "A">>), zipcode |-> Str(Rep("1", 5)),
     emergency_phone_number |-> Str(Rep("1", 10)),
     emergency_phone_number2 |-> Str(Rep("0", 10)),
     medicare_beneficiary_id |-> Str(<<"1", "E", "G", "4", "T", "E", "5", "M", "K", "7", "3">>),
     primary_payer_id |-> Str(Rep("6", 5)), secondary_payer_id |-> Str(Rep("5", 5))]

---------------------------------------------------------------------------
(* add_id_col: pd.merge(df, id_df, on=col) then drop(columns=[col]).       *)

\* One merged row: the columns of both sides (the key once).
MergeRow(l, r) == [c \in (DOMAIN l) \cup (DOMAIN r) |-> IF c \in DOMAIN l THEN l[c] ELSE r[c]]

\* The inner join: for each left row in order, one row per right row with an
\* equal key, in right order.
RECURSIVE Merge(_, _, _)
Merge(df, id_df, col) ==
    IF df = <<>> THEN <<>>
    ELSE LET l == Head(df)
             hits == SelectSeq(id_df, LAMBDA r : r[col] = l[col])
         IN  [i \in 1..Len(hits) |-> MergeRow(l, hits[i])] \o Merge(Tail(df), id_df, col)

\* A faulty variant: a left join, keeping unmatched rows.
RECURSIVE MergeLeft(_, _, _)
MergeLeft(df, id_df, col) ==
    IF df = <<>> THEN <<>>
    ELSE LET l == Head(df)
             hits == SelectSeq(id_df, LAMBDA r : r[col] = l[col])
         IN  (IF hits = <<>> THEN <<l>>
              ELSE [i \in 1..Len(hits) |-> MergeRow(l, hits[i])])
             \o MergeLeft(Tail(df), id_df, col)

add_id_col_left_join(df, id_df, col) ==
    LET m == MergeLeft(df, id_df, col)
    IN  [i \in 1..Len(m) |-> DropCol(m[i], col)]

\* A faulty variant: an input row is joined to its first lookup row only.
add_id_col_first_match(df, id_df, col) ==
    LET firsts == SelectSeq(id_df, LAMBDA r :
                      r = (CHOOSE x \in Range(id_df) :
                              /\ x[col] = r[col]
                              /\ \A j \in 1..Len(id_df) :
                                    id_df[j][col] = r[col] =>
                                        \E i \in 1..j : id_df[i] = x))
        m == Merge(df, firsts, col)
    IN  [i \in 1..Len(m) |-> DropCol(m[i], col)]

add_id_col(df, id_df, col) ==
    LET m == Merge(df, id_df, col)
    IN  [i \in 1..Len(m) |-> DropCol(m[i], col)]

---------------------------------------------------------------------------
(* Record shaping: the create_*_df functions, and the normalize_* functions *)
(* of the user, device and reading frames.                                 *)

IsNull(x) == x.t # "str"

\* str.split(sep): the pieces of cs between the occurrences of sep.
RECURSIVE SplitFrom(_, _, _)
SplitFrom(cs, sep, acc) ==
    IF cs = <<>> THEN <<acc>>
    ELSE IF Head(cs) = sep THEN <<acc>> \o SplitFrom(Tail(cs), sep, <<>>)
    ELSE SplitFrom(Tail(cs), sep, Append(acc, Head(cs)))

Split(cs, sep) == SplitFrom(cs, sep, <<>>)

\* df.rename(columns=m): m maps old names to new names.
RenameRow(r, m) ==
    LET new(c) == IF c \in DOMAIN m THEN m[c] ELSE c
    IN  [n \in {new(c) : c \in DOMAIN r} |->
            r[CHOOSE c \in DOMAIN r : new(c) = n]]

Rename(df, m) == [i \in 1..Len(df) |-> RenameRow(df[i], m)]

Select(df, cols) == [i \in 1..Len(df) |-> Project(df[i], cols)]

normalize_users(df) ==
    Rename(Select(df, {"givenName", "surname", "displayName", "mail", "id"}),
           [givenName |-> "first_name", surname |-> "last_name",
            displayName |-> "display_name", mail |-> "email", id |-> "ms_entra_id"])

create_patient_df(df) ==
    Select(df, {"first_name", "last_name", "middle_name", "name_suffix", "full_name",
                "nick_name", "date_of_birth", "sex", "email", "phone_number",
                "social_security", "temp_race", "temp_marital_status",
                "preferred_language", "weight_lbs", "height_in", "sharepoint_id",
                "temp_user"})

create_patient_address_df(df) ==
    Select(df, {"street_address", "city", "temp_state", "zipcode", "sharepoint_id"})

create_patient_insurance_df(df) ==
    Select(df, {"medicare_beneficiary_id", "primary_payer_id", "primary_payer_name",
                "secondary_payer_id", "secondary_payer_name", "sharepoint_id"})

\* A faulty variant: the diagnosis field is not exploded.
create_med_necessity_df_no_explode(df) ==
    Select(df, {"evaluation_datetime", "temp_dx_code", "sharepoint_id"})

\* A faulty variant: a field that lists no code gives no row.
create_med_necessity_df_drop_empty(df) ==
    LET med_nec_df == Select(df, {"evaluation_datetime", "temp_dx_code", "sharepoint_id"})
        explode(r) ==
            IF IsNull(r.temp_dx_code) THEN <<[r EXCEPT !.temp_dx_code = NaN]>>
            ELSE IF r.temp_dx_code.v = <<>> THEN <<>>
            ELSE LET codes == Split(r.temp_dx_code.v, ",")
                 IN  [k \in 1..Len(codes) |-> [r EXCEPT !.temp_dx_code = Str(codes[k])]]
    IN  Concat([i \in 1..Len(med_nec_df) |-> explode(med_nec_df[i])])

\* str.split(',') leaves a missing value missing; explode gives one row per
\* list element and one row for a missing value.
create_med_necessity_df(df) ==
    LET med_nec_df == Select(df, {"evaluation_datetime", "temp_dx_code", "sharepoint_id"})
        explode(r) ==
            IF IsNull(r.temp_dx_code) THEN <<[r EXCEPT !.temp_dx_code = NaN]>>
            ELSE LET codes == Split(r.temp_dx_code.v, ",")
                 IN  [k \in 1..Len(codes) |-> [r EXCEPT !.temp_dx_code = Str(codes[k])]]
    IN  Concat([i \in 1..Len(med_nec_df) |-> explode(med_nec_df[i])])

create_patient_status_df(df) ==
    LET patient_status_df == Select(df, {"temp_status_type", "sharepoint_id"})
    IN  [i \in 1..Len(patient_status_df) |->
            ("modified_date" :> Str(<<"n", "o", "w">>))
            @@ ("temp_user" :> Str(<<"I", "T", "H", "e", "l", "p">>))
            @@ patient_status_df[i]]

\* A faulty variant: only a missing name removes a contact.
create_emcontacts_df_name_only(df) ==
    LET emcontacts_df1 ==
            Rename(Select(df, {"emergency_full_name", "emergency_phone_number",
                               "emergency_relationship", "sharepoint_id"}),
                   [emergency_full_name |-> "full_name",
                    emergency_phone_number |-> "phone_number",
                    emergency_relationship |-> "relationship"])
        emcontacts_df2 ==
            Rename(Select(df, {"emergency_full_name2", "emergency_phone_number2",
                               "emergency_relationship2", "sharepoint_id"}),
                   [emergency_full_name2 |-> "full_name",
                    emergency_phone_number2 |-> "phone_number",
                    emergency_relationship2 |-> "relationship"])
    IN  SelectSeq(emcontacts_df1 \o emcontacts_df2, LAMBDA r : ~IsNull(r.full_name))

create_emcontacts_df(df) ==
    LET emcontacts_df1 ==
            Rename(Select(df, {"emergency_full_name", "emergency_phone_number",
                               "emergency_relationship", "sharepoint_id"}),
                   [emergency_full_name |-> "full_name",
                    emergency_phone_number |-> "phone_number",
                    emergency_relationship |-> "relationship"])
        emcontacts_df2 ==
            Rename(Select(df, {"emergency_full_name2", "emergency_phone_number2",
                               "emergency_relationship2", "sharepoint_id"}),
                   [emergency_full_name2 |-> "full_name",
                    emergency_phone_number2 |-> "phone_number",
                    emergency_relationship2 |-> "relationship"])
    IN  SelectSeq(emcontacts_df1 \o emcontacts_df2,
                  LAMBDA r : ~IsNull(r.full_name) /\ ~IsNull(r.phone_number))

Tenovi == <<"T", "e", "n", "o", "v", "i">>
Omron == <<"O", "m", "r", "o", "n">>

standardize_vendor(row) ==
    IF ~IsInfix(row.Vendor.v, row.Device_Name.v)
    THEN IF IsInfix(Tenovi, row.Device_Name.v) THEN Str(Tenovi) ELSE Str(Omron)
    ELSE row.Vendor

normalize_devices(df) ==
    LET fix(r) == [r EXCEPT !.Device_ID = Str(SelectSeq(@.v, LAMBDA ch : ch # "-")),
                            !.Vendor = standardize_vendor(r)]
    IN  Rename([i \in 1..Len(df) |-> fix(df[i])],
               [Device_ID |-> "hardware_uuid", Device_Name |-> "name",
                Patient_ID |-> "sharepoint_id"])

BoolToInt(b) == IF b THEN 1 ELSE 0

normalize_bp_readings(df) ==
    Rename([i \in 1..Len(df) |-> [df[i] EXCEPT !.Manual_Reading = BoolToInt(@)]],
           [SharePoint_ID |-> "sharepoint_id", Device_Model |-> "temp_device",
            Time_Recorded |-> "recorded_datetime", Time_Recieved |-> "received_datetime",
            BP_Reading_Systolic |-> "systolic_reading",
            BP_Reading_Diastolic |-> "diastolic_reading",
            Manual_Reading |-> "is_manual"])

normalize_bg_readings(df) ==
    Rename([i \in 1..Len(df) |-> [df[i] EXCEPT !.Manual_Reading = BoolToInt(@)]],
           [SharePoint_ID |-> "sharepoint_id", Device_Model |-> "temp_device",
            Time_Recorded |-> "recorded_datetime", Time_Recieved |-> "received_datetime",
            BG_Reading |-> "glucose_reading", Manual_Reading |-> "is_manual"])

---------------------------------------------------------------------------
(* The field standardizers.                                                *)

\* The length of the match of first\d+(\.\d+)? at the start of cs, first being
\* the set of characters the leading class admits; 0 when there is no match.
\* \d+ and the optional group are greedy.
DxMatchLen(cs, first) ==
    IF cs = <<>> \/ Head(cs) \notin first THEN 0
    ELSE LET d == RunLen(Tail(cs), Digits)
             rest == Drop(cs, 1 + d)
             frac == IF rest # <<>> /\ Head(rest) = "." THEN RunLen(Tail(rest), Digits) ELSE 0
         IN  IF d = 0 THEN 0
             ELSE IF frac = 0 THEN 1 + d
             ELSE 1 + d + 1 + frac

\* re.finditer: the matches from left to right, none overlapping another,
\* each with its '.' removed.
RECURSIVE DxMatches(_, _)
DxMatches(cs, first) ==
    IF cs = <<>> THEN <<>>
    ELSE LET n == DxMatchLen(cs, first)
         IN  IF n = 0 THEN DxMatches(Tail(cs), first)
             ELSE <<SelectSeq(SubSeq(cs, 1, n), LAMBDA c : c # ".")>>
                  \o DxMatches(Drop(cs, n), first)

\* The characters of the class [E|I|R].
DxFirstChars == {"E", "|", "I", "R"}

standardize_dx_code(dx_code) ==
    Str(JoinComma(DxMatches(Upper(Strip(PyStr(dx_code))), DxFirstChars)))

\* str.title(): a letter that follows no letter is upper-cased, every other
\* letter is lower-cased.
Title(cs) ==
    [i \in 1..Len(cs) |->
        IF i = 1 \/ cs[i - 1] \notin LowerLetters \cup UpperLetters
        THEN Upper(<<cs[i]>>)[1]
        ELSE Lower(<<cs[i]>>)[1]]

\* utils.enums.relationship_keywords: name -> keyword, in iteration order.
relationship_keywords ==
    <<[name |-> <<"S", "p", "o", "u", "s", "e">>, keyword |-> <<"s", "p", "o", "u", "s", "e">>],
      [name |-> <<"C", "h", "i", "l", "d">>, keyword |-> <<"c", "h", "i", "l", "d">>]>>

\* utils.enums.race_keywords: name -> keyword groups, in iteration order.
race_keywords ==
    <<[name |-> <<"W", "h", "i", "t", "e">>, keyword_sets |-> <<<<<<"w", "h", "i", "t", "e">>>>>>],
      [name |-> <<"B", "l", "a", "c", "k">>, keyword_sets |-> <<<<<<"b", "l", "a", "c", "k">>>>, <<<<"a", "f", "r", "i", "c", "a", "n">>, <<"a", "m", "e", "r", "i", "c", "a", "n">>>>>>]>>

standardize_emcontact_relationship(name) ==
    keyword_search(Title(Strip(PyStr(name))), relationship_keywords, FALSE)

standardize_race(race) ==
    keyword_list_search(Title(Strip(PyStr(race))), race_keywords, TRUE)

\* re.sub(r'\s+', ' ', cs): every run of whitespace becomes one space.
RECURSIVE CollapseWhitespace(_)
CollapseWhitespace(cs) ==
    IF cs = <<>> THEN <<>>
    ELSE IF Head(cs) \in Whitespace
    THEN <<" ">> \o CollapseWhitespace(Drop(cs, RunLen(cs, Whitespace)))
    ELSE <<Head(cs)>> \o CollapseWhitespace(Tail(cs))

\* The character classes the patterns of normalize_patients keep.  In
\* '.-/' the hyphen makes a range, from '.' to '/'.
Letters == LowerLetters \cup UpperLetters

NameClass ==
    [person |-> Letters \cup Whitespace \cup {".", "-"},
     middle |-> Letters \cup Whitespace \cup {"-"},
     address |-> Letters \cup Digits \cup Whitespace \cup {"#", ".", "/"},
     city |-> Letters \cup {"-"},
     emergency |-> Letters \cup Whitespace \cup {".", "/", "(", ")"}]

\* standardize_name; re.sub(pattern, '', name) removes each character
\* outside the class.
standardize_name(name, class) ==
    LET titled == Title(Strip(PyStr(name)))
        flat == CollapseWhitespace(titled)
    IN  Str(SelectSeq(flat, LAMBDA c : c \in NameClass[class]))

\* re.search(r'([A-Z0-9]{11})', cs): the start of the leftmost window of 11
\* characters of A-Z0-9, or 0.
MbiSearch(cs) ==
    LET hits == {k \in 1..(Len(cs) - 10) :
                    \A n \in k..(k + 10) : cs[n] \in UpperLetters \cup Digits}
    IN  IF hits = {} THEN 0 ELSE CHOOSE k \in hits : \A o \in hits : k <= o

\* extract_regex_pattern(mbi, mbi_pattern, keep_original=True)
standardize_mbi(mbi) ==
    LET value == Upper(Strip(PyStr(mbi)))
        k == MbiSearch(value)
    IN  IF k > 0 THEN Str(SubSeq(value, k, k + 10)) ELSE Str(value)

\* height_chars = ["'", '"', 'ft', 'in']
HeightChars == {<<"'">>, <<"\"">>, <<"f", "t">>, <<"i", "n">>}

\* A faulty variant: the digits are not cut to three.
standardize_weight_uncut(weight) ==
    LET w == Strip(PyStr(weight))
        digits == SelectSeq(w, LAMBDA c : c \in Digits)
    IN  IF \E char \in HeightChars : IsInfix(char, Lower(w)) THEN NaN
        ELSE IF digits = <<>> THEN IntVal(0)
        ELSE IntVal(ToInt(digits))

standardize_weight(weight) ==
    LET w == Strip(PyStr(weight))
        digits == SelectSeq(w, LAMBDA c : c \in Digits)
        cut == IF Len(digits) > 3 THEN SubSeq(digits, 1, 3) ELSE digits
    IN  IF \E char \in HeightChars : IsInfix(char, Lower(w)) THEN NaN
        ELSE IF cut = <<>> THEN IntVal(0)
        ELSE IntVal(ToInt(cut))

\* weight_chars = ['lbs', 'kg']
WeightChars == {<<"l", "b", "s">>, <<"k", "g">>}

\* The ways ^(\d+)[\D]*?(\d+)?[\D]*?$ matches h: <<a, b, c>> gives the lengths
\* of group 1, of the first run of non-digits and of group 2 (0: absent); the
\* rest of h is the second run of non-digits.
HeightParses(h) ==
    {p \in (1..Len(h)) \X (0..Len(h)) \X (0..Len(h)) :
        /\ p[1] + p[2] + p[3] <= Len(h)
        /\ \A k \in 1..Len(h) :
              (h[k] \in Digits) <=>
                  \/ k <= p[1]
                  \/ (k > p[1] + p[2] /\ k <= p[1] + p[2] + p[3])}

\* re.match tries group 1 longest first, the first run shortest first and
\* group 2 longest first; the first way that matches is the match.
HeightMatch(h) ==
    CHOOSE p \in HeightParses(h) :
        \A o \in HeightParses(h) :
            \/ p[1] > o[1]
            \/ (p[1] = o[1] /\ p[2] < o[2])
            \/ (p[1] = o[1] /\ p[2] = o[2] /\ p[3] >= o[3])

\* A faulty variant: the inches are dropped.
standardize_height_feet_only(height) ==
    LET h == Strip(PyStr(height))
    IN  IF \E char \in WeightChars : IsInfix(char, Lower(h)) THEN NaN
        ELSE IF HeightParses(h) = {} THEN None
        ELSE LET m == HeightMatch(h)
                 feet == ToInt(SubSeq(h, 1, m[1]))
             IN  IntVal(feet * 12)

\* With no match the function ends without a return statement: None.
standardize_height(height) ==
    LET h == Strip(PyStr(height))
    IN  IF \E char \in WeightChars : IsInfix(char, Lower(h)) THEN NaN
        ELSE IF HeightParses(h) = {} THEN None
        ELSE LET m == HeightMatch(h)
                 feet == ToInt(SubSeq(h, 1, m[1]))
                 inches == IF m[3] > 0
                           THEN ToInt(SubSeq(h, m[1] + m[2] + 1, m[1] + m[2] + m[3]))
                           ELSE 0
             IN  IntVal(feet * 12 + inches)

---------------------------------------------------------------------------
(* normalize_patients: the primary-payer fallback.                         *)

MedicarePartB == <<"M", "e", "d", "i", "c", "a", "r", "e", " ", "P", "a", "r", "t", " ", "B">>

\* row.replace(r'(?i)^nan$', np.nan, regex=True): a text cell reading 'nan'
\* in any letter case becomes a missing value.
NanToNull(x) == IF x.t = "str" /\ Lower(x.v) = <<"n", "a", "n">> THEN NaN ELSE x

ReplaceNan(row) == [c \in DOMAIN row |-> NanToNull(row[c])]

\* A faulty variant: the fallback applies when the name or the id is missing.
fill_primary_payer_either(row) ==
    LET r == ReplaceNan(row)
    IN  IF (IsNull(r["Insurance Name:"]) \/ IsNull(r["Insurance ID:"]))
           /\ ~IsNull(r["Medicare ID number"])
        THEN Str(MedicarePartB)
        ELSE r["Insurance Name:"]

fill_primary_payer(row) ==
    LET r == ReplaceNan(row)
    IN  IF IsNull(r["Insurance Name:"]) /\ IsNull(r["Insurance ID:"])
           /\ ~IsNull(r["Medicare ID number"])
        THEN Str(MedicarePartB)
        ELSE r["Insurance Name:"]

fill_primary_payer_id(row) ==
    LET r == ReplaceNan(row)
    IN  IF r["Insurance Name:"] = Str(MedicarePartB) /\ IsNull(r["Insurance ID:"])
        THEN r["Medicare ID number"]
        ELSE r["Insurance ID:"]

\* normalize_patients, the two apply(axis=1) statements: the name column is
\* assigned first and the id is computed from the rows that hold it.
fill_payer_columns(df) ==
    LET named == [i \in 1..Len(df) |->
                    [df[i] EXCEPT !["Insurance Name:"] = fill_primary_payer(df[i])]]
    IN  [i \in 1..Len(named) |->
            [named[i] EXCEPT !["Insurance ID:"] = fill_primary_payer_id(named[i])]]

---------------------------------------------------------------------------
(* DatabaseManager (src/utils/db_utils.py).                                *)

\* What each id-lookup statement reads (src/lch_tools/queries.py).
StmtTable ==
    [get_patient_id_stmt |-> "patient", get_vendor_id_stmt |-> "vendor",
     get_device_id_stmt |-> "device"]

StmtCols ==
    [get_patient_id_stmt |-> {"patient_id", "sharepoint_id"},
     get_vendor_id_stmt |-> {"vendor_id", "name"},
     get_device_id_stmt |-> {"device_id", "patient_id"}]

\* The columns the destination database fills in on insert.
IdentityCol == [patient |-> "patient_id", device |-> "device_id"]

SeqMax(ns) == IF ns = {} THEN 0 ELSE CHOOSE n \in ns : \A m \in ns : m <= n

WithIdentity(df, table, existing) ==
    IF table \in DOMAIN IdentityCol
    THEN LET col == IdentityCol[table]
             top == SeqMax({existing[i][col] : i \in 1..Len(existing)})
         IN  [i \in 1..Len(df) |-> (col :> top + i) @@ df[i]]
    ELSE df

\* A faulty variant: the frame replaces the table's rows.
to_sql_replace(rows, df, table, if_exists) ==
    [raised |-> FALSE, rows |-> WithIdentity(df, table, <<>>)]

\* DatabaseManager.to_sql on a table that exists: df.to_sql(table, engine,
\* if_exists=...).  'fail' raises, 'replace' drops the table's rows first,
\* 'append' adds the frame's rows after the rows the table holds.
to_sql(rows, df, table, if_exists) ==
    IF if_exists = "append"
    THEN [raised |-> FALSE, rows |-> rows \o WithIdentity(df, table, rows)]
    ELSE IF if_exists = "replace"
    THEN [raised |-> FALSE, rows |-> WithIdentity(df, table, <<>>)]
    ELSE [raised |-> TRUE, rows |-> rows]

\* DatabaseManager.read_sql of an id-lookup statement; the report query's
\* rows are computed by the database and are not modelled.
read_sql(stmt, tables) ==
    IF stmt \in DOMAIN StmtTable
    THEN Select(tables[StmtTable[stmt]], StmtCols[stmt])
    ELSE <<>>

\* A faulty variant: the error is re-raised after the rollback.
execute_query_reraise(fault, returns_rows) ==
    LET exc == fault \in {"execute", "commit"} \/ (fault = "fetchall" /\ returns_rows)
    IN  [calls |-> <<"execute">>
                    \o (IF fault # "execute" THEN <<"commit">> ELSE <<>>)
                    \o (IF fault \notin {"execute", "commit"} /\ returns_rows
                        THEN <<"fetchall">> ELSE <<>>)
                    \o (IF exc THEN <<"rollback">> ELSE <<>>)
                    \o <<"close">>,
         exc |-> exc,
         error_logged |-> exc,
         result |-> IF ~exc /\ returns_rows THEN "rows" ELSE "None",
         raised |-> exc]

\* DatabaseManager.execute_query once get_session() returned a session.
\* fault names the session call that throws (or "none"); returns_rows is
\* res.returns_rows.  calls is the sequence of session calls made.
execute_query(fault, returns_rows) ==
    LET exc == fault \in {"execute", "commit"} \/ (fault = "fetchall" /\ returns_rows)
    IN  [calls |-> <<"execute">>
                    \o (IF fault # "execute" THEN <<"commit">> ELSE <<>>)
                    \o (IF fault \notin {"execute", "commit"} /\ returns_rows
                        THEN <<"fetchall">> ELSE <<>>)
                    \o (IF exc THEN <<"rollback">> ELSE <<>>)
                    \o <<"close">>,
         exc |-> exc,
         error_logged |-> exc,
         result |-> IF ~exc /\ returns_rows THEN "rows" ELSE "None",
         raised |-> FALSE]

Faults == {"none", "execute", "commit", "fetchall"}

---------------------------------------------------------------------------
(* The program text of src/main.py: each function is the sequence of the   *)
(* I/O calls and frame operations it makes, in execution order.            *)

CreateEngineI(mgr, database) == [op |-> "create_engine", mgr |-> mgr, database |-> database]
ExecI(mgr, stmt) == [op |-> "execute_query", mgr |-> mgr, stmt |-> stmt]
ExtractI(src, out) == [op |-> "extract", src |-> src, out |-> out]
ApplyI(fn, df, out) == [op |-> "apply", fn |-> fn, df |-> df, out |-> out]
JoinI(df, id_df, col, out) ==
    [op |-> "apply", fn |-> "add_id_col", df |-> df, id_df |-> id_df, col |-> col, out |-> out]
ReadI(mgr, stmt, out) == [op |-> "read_sql", mgr |-> mgr, stmt |-> stmt, out |-> out]
ToSqlI(mgr, df, table, if_exists) ==
    [op |-> "to_sql", mgr |-> mgr, df |-> df, table |-> table, if_exists |-> if_exists]
CloseI(mgr) == [op |-> "close", mgr |-> mgr]
FsI(what) == [op |-> "fs", what |-> what]
ExcelI(df) == [op |-> "to_excel", df |-> df]

DataImporter_init == <<CreateEngineI("dim.gps", "GPS")>>

get_user_data ==
    <<ExtractI("ms_graph", "user_raw"),
      ApplyI("normalize_users", "user_raw", "user_df")>>

\* read_csv and normalize_patients are one extraction step here: the frame it
\* yields is the normalized frame.
get_patient_data ==
    <<ExtractI("patient_export", "df"),
      ApplyI("check_patient_db_constraints", "df", "df"),
      ApplyI("create_patient_df", "df", "patient"),
      ApplyI("create_patient_address_df", "df", "address"),
      ApplyI("create_patient_insurance_df", "df", "insurance"),
      ApplyI("create_med_necessity_df", "df", "med_nec"),
      ApplyI("create_patient_status_df", "df", "status"),
      ApplyI("create_emcontacts_df", "df", "emcontacts")>>

get_patient_note_data ==
    <<CreateEngineI("notes_db", "NOTES"),
      CreateEngineI("time_db", "TIME"),
      ExtractI("notes", "notes_df"),
      ExtractI("time", "time_df"),
      ApplyI("normalize_patient_notes", "notes_df", "note_df"),
      CloseI("time_db"),
      CloseI("notes_db")>>

get_device_data ==
    <<CreateEngineI("fulfillment_db", "FULFILLMENT"),
      ExtractI("fulfillment", "device_raw"),
      ApplyI("normalize_devices", "device_raw", "device_df")>>

get_gluc_readings ==
    <<CreateEngineI("gluc.readings_db", "READINGS"),
      ExtractI("bg_readings", "gluc_raw"),
      ApplyI("normalize_bg_readings", "gluc_raw", "gluc_df")>>

get_bp_readings ==
    <<CreateEngineI("bp.readings_db", "READINGS"),
      ExtractI("bp_readings", "bp_raw"),
      ApplyI("normalize_bp_readings", "bp_raw", "bp_df")>>

import_user_data == <<ToSqlI("dim.gps", "user_df", "user", "append")>>

\* A faulty variant: the patient ids are read before the patients are written.
import_patient_data_read_first ==
    <<ReadI("dim.gps", "get_patient_id_stmt", "patient_id_df"),
      ToSqlI("dim.gps", "patient", "patient", "append"),
      JoinI("address", "patient_id_df", "sharepoint_id", "address_df"),
      JoinI("insurance", "patient_id_df", "sharepoint_id", "insurance_df"),
      JoinI("med_nec", "patient_id_df", "sharepoint_id", "med_nec_df"),
      JoinI("status", "patient_id_df", "sharepoint_id", "patient_status_df"),
      JoinI("emcontacts", "patient_id_df", "sharepoint_id", "emcontacts_df"),
      ToSqlI("dim.gps", "address_df", "patient_address", "append"),
      ToSqlI("dim.gps", "insurance_df", "patient_insurance", "append"),
      ToSqlI("dim.gps", "med_nec_df", "medical_necessity", "append"),
      ToSqlI("dim.gps", "patient_status_df", "patient_status", "append"),
      ToSqlI("dim.gps", "emcontacts_df", "emergency_contact", "append")>>

import_patient_data ==
    <<ToSqlI("dim.gps", "patient", "patient", "append"),
      ReadI("dim.gps", "get_patient_id_stmt", "patient_id_df"),
      JoinI("address", "patient_id_df", "sharepoint_id", "address_df"),
      JoinI("insurance", "patient_id_df", "sharepoint_id", "insurance_df"),
      JoinI("med_nec", "patient_id_df", "sharepoint_id", "med_nec_df"),
      JoinI("status", "patient_id_df", "sharepoint_id", "patient_status_df"),
      JoinI("emcontacts", "patient_id_df", "sharepoint_id", "emcontacts_df"),
      ToSqlI("dim.gps", "address_df", "patient_address", "append"),
      ToSqlI("dim.gps", "insurance_df", "patient_insurance", "append"),
      ToSqlI("dim.gps", "med_nec_df", "medical_necessity", "append"),
      ToSqlI("dim.gps", "patient_status_df", "patient_status", "append"),
      ToSqlI("dim.gps", "emcontacts_df", "emergency_contact", "append")>>

import_patient_note_data ==
    <<ReadI("dim.gps", "get_patient_id_stmt", "patient_id_df"),
      JoinI("note_df", "patient_id_df", "sharepoint_id", "note_df"),
      ToSqlI("dim.gps", "note_df", "patient_note", "append")>>

import_device_data ==
    <<ReadI("dim.gps", "get_patient_id_stmt", "patient_id_df"),
      ReadI("dim.gps", "get_vendor_id_stmt", "vendor_id_df"),
      JoinI("device_df", "patient_id_df", "sharepoint_id", "device_df"),
      ApplyI("rename_name_Vendor", "vendor_id_df", "vendor_id_df"),
      JoinI("device_df", "vendor_id_df", "Vendor", "device_df"),
      ToSqlI("dim.gps", "device_df", "device", "append")>>

import_gluc_readings_data ==
    <<ReadI("dim.gps", "get_patient_id_stmt", "patient_id_df"),
      ReadI("dim.gps", "get_device_id_stmt", "device_id_df"),
      JoinI("gluc_df", "patient_id_df", "sharepoint_id", "gluc_df"),
      JoinI("gluc_df", "device_id_df", "patient_id", "gluc_df"),
      ToSqlI("dim.gps", "gluc_df", "glucose_reading", "append")>>

import_bp_readings_data ==
    <<ReadI("dim.gps", "get_patient_id_stmt", "patient_id_df"),
      ReadI("dim.gps", "get_device_id_stmt", "device_id_df"),
      JoinI("bp_df", "patient_id_df", "sharepoint_id", "bp_df"),
      JoinI("bp_df", "device_id_df", "patient_id", "bp_df"),
      ToSqlI("dim.gps", "bp_df", "blood_pressure_reading", "append")>>

close_db == <<CloseI("dim.gps")>>

\* A faulty variant: the fix-up statements are issued before the importer
\* closes its connection.
import_all_data_updates_before_close ==
    <<CreateEngineI("gps", "GPS"),
      ExecI("gps", "reset_all_billing_tables"),
      FsI("snaps_dir")>>
    \o DataImporter_init
    \o get_user_data \o import_user_data
    \o get_patient_data \o import_patient_data
    \o get_device_data \o import_device_data
    \o get_gluc_readings \o import_gluc_readings_data
    \o get_bp_readings \o import_bp_readings_data
    \o <<ExecI("gps", "update_patient_note_stmt"),
         ExecI("gps", "update_patient_status_stmt"),
         ExecI("gps", "update_user_stmt"),
         ExecI("gps", "update_user_note_stmt")>>
    \o close_db
    \o <<CloseI("gps")>>

import_all_data ==
    <<CreateEngineI("gps", "GPS"),
      ExecI("gps", "reset_all_billing_tables"),
      FsI("snaps_dir")>>
    \o DataImporter_init
    \o get_user_data \o import_user_data
    \o get_patient_data \o import_patient_data
    \o get_device_data \o import_device_data
    \o get_gluc_readings \o import_gluc_readings_data
    \o get_bp_readings \o import_bp_readings_data
    \o close_db
    \o <<ExecI("gps", "update_patient_note_stmt"),
         ExecI("gps", "update_patient_status_stmt"),
         ExecI("gps", "update_user_stmt"),
         ExecI("gps", "update_user_note_stmt"),
         CloseI("gps")>>

\* A faulty variant: the report is read before the procedures have run.
create_billing_report_read_first ==
    <<CreateEngineI("report.gps", "GPS"),
      ReadI("report.gps", "create_billing_report", "report_df"),
      ExecI("report.gps", "reset_medical_code_tables"),
      ExecI("report.gps", "batch_medcode_99202"),
      ExecI("report.gps", "batch_medcode_99453_bg"),
      ExecI("report.gps", "batch_medcode_99453_bp"),
      ExecI("report.gps", "batch_medcode_99454_bg"),
      ExecI("report.gps", "batch_medcode_99454_bp"),
      ExecI("report.gps", "batch_medcode_99457"),
      ExecI("report.gps", "batch_medcode_99458"),
      ExcelI("report_df"),
      CloseI("report.gps")>>

create_billing_report ==
    <<CreateEngineI("report.gps", "GPS"),
      ExecI("report.gps", "reset_medical_code_tables"),
      ExecI("report.gps", "batch_medcode_99202"),
      ExecI("report.gps", "batch_medcode_99453_bg"),
      ExecI("report.gps", "batch_medcode_99453_bp"),
      ExecI("report.gps", "batch_medcode_99454_bg"),
      ExecI("report.gps", "batch_medcode_99454_bp"),
      ExecI("report.gps", "batch_medcode_99457"),
      ExecI("report.gps", "batch_medcode_99458"),
      ReadI("report.gps", "create_billing_report", "report_df"),
      ExcelI("report_df"),
      CloseI("report.gps")>>

\* if __name__ == '__main__': the two calls, with no exception handler.
Program == import_all_data \o create_billing_report

---------------------------------------------------------------------------
(* What the sources can hold.                                              *)

MaxDevices == 2
MaxReadings == 2

T(c) == Str(<<c>>)

GraphUsers ==
    {<<[givenName |-> T("A"), surname |-> T("B"), displayName |-> T("C"),
        mail |-> T("m"), id |-> T("1"), jobTitle |-> T("j")]>>}

\* A normalized row of the patient export whose phone number has n digits.
\* The second emergency contact is absent: its name is missing and its
\* digit-stripped number is the empty text.
PatientRow(i, n) ==
    ("sharepoint_id" :> i)
    @@ [TestRow EXCEPT !.phone_number = Str(Rep("1", n)),
                       !.emergency_phone_number2 = Str(<<>>)]
    @@ [first_name |-> T("A"), last_name |-> T("B"), middle_name |-> T("C"),
        name_suffix |-> None, full_name |-> Str(<<"A", " ", "B">>), nick_name |-> None,
        date_of_birth |-> T("d"), sex |-> T("M"), email |-> NaN, temp_race |-> T("r"),
        temp_marital_status |-> T("s"), preferred_language |-> T("e"),
        weight_lbs |-> T("w"), height_in |-> T("h"), temp_user |-> T("C"),
        street_address |-> T("a"), city |-> T("c"),
        primary_payer_name |-> T("p"), secondary_payer_name |-> None,
        evaluation_datetime |-> T("t"),
        temp_dx_code |-> Str(<<"E", "1", "1", "9", ",", "I", "1", "0">>),
        temp_status_type |-> T("o"),
        emergency_full_name |-> T("E"), emergency_relationship |-> NaN,
        emergency_full_name2 |-> None, emergency_relationship2 |-> NaN]

PatientExports ==
    {<<>>, <<PatientRow(1, 10), PatientRow(2, 11)>>, <<PatientRow(1, 10), PatientRow(2, 12)>>}

\* Rows of Fulfillment_All: a device recorded under Omron whose name says
\* Tenovi, and an Omron device.
DeviceRow(p, kind) ==
    [Vendor |-> IF kind = "tenovi" THEN Str(Tenovi) ELSE Str(Omron),
     Device_ID |-> Str(<<"a", "-", "1">>),
     Device_Name |-> IF kind = "omron" THEN Str(Omron \o <<" ", "B", "P">>)
                     ELSE Str(Tenovi \o <<" ", "B", "G">>),
     Patient_ID |-> p]

DeviceRows == {DeviceRow(1, "mismatch"), DeviceRow(2, "omron")}

BgRow(p, manual) ==
    [SharePoint_ID |-> p, Device_Model |-> T("m"), Time_Recorded |-> T("t"),
     Time_Recieved |-> T("u"), BG_Reading |-> 100, Manual_Reading |-> manual]

BpRow(p, manual) ==
    [SharePoint_ID |-> p, Device_Model |-> T("m"), Time_Recorded |-> T("t"),
     Time_Recieved |-> T("u"), BP_Reading_Systolic |-> 120,
     BP_Reading_Diastolic |-> 80, Manual_Reading |-> manual]

\* Readings in the period: of the two patients of the export, and of a
\* patient the export does not hold.
BgRows == <<BgRow(1, FALSE), BgRow(2, TRUE), BgRow(3, FALSE)>>
BpRows == <<BpRow(1, FALSE), BpRow(2, TRUE), BpRow(3, FALSE)>>

Source(src) ==
    CASE src = "ms_graph" -> GraphUsers
      [] src = "patient_export" -> PatientExports
      [] src = "fulfillment" -> SeqUpTo(DeviceRows, MaxDevices)
      [] src = "bg_readings" -> Prefixes(BgRows, MaxReadings)
      [] src = "bp_readings" -> Prefixes(BpRows, MaxReadings)
      [] OTHER -> {<<>>}

Tables ==
    {"user", "patient", "patient_address", "patient_insurance", "medical_necessity",
     "patient_status", "emergency_contact", "patient_note", "device", "glucose_reading",
     "blood_pressure_reading", "vendor"}

\* The reference table of vendors, which the destination database holds.
VendorRows ==
    <<[vendor_id |-> 1, name |-> Str(Tenovi)], [vendor_id |-> 2, name |-> Str(Omron)]>>

\* Rows left in the destination by an earlier run.
LegacyRows(t) ==
    IF t = "patient"
    THEN <<("patient_id" :> 1) @@ create_patient_df(<<PatientRow(1, 10)>>)[1]>>
    ELSE IF t = "device"
    THEN <<[device_id |-> 1, patient_id |-> 1, vendor_id |-> 1,
            hardware_uuid |-> Str(<<"a", "1">>), name |-> Str(Tenovi)]>>
    ELSE <<>>

InitDb(legacy) ==
    [t \in Tables |->
        IF t = "vendor" THEN VendorRows
        ELSE IF legacy THEN LegacyRows(t) ELSE <<>>]

FrameNames ==
    {Program[i].out : i \in {j \in 1..Len(Program) : "out" \in DOMAIN Program[j]}}

\* The frame operation an "apply" instruction names.
ApplyFn(ins, fr) ==
    CASE ins.fn = "normalize_users" -> normalize_users(fr[ins.df])
      [] ins.fn = "check_patient_db_constraints" -> check_patient_db_constraints(fr[ins.df])
      [] ins.fn = "create_patient_df" -> create_patient_df(fr[ins.df])
      [] ins.fn = "create_patient_address_df" -> create_patient_address_df(fr[ins.df])
      [] ins.fn = "create_patient_insurance_df" -> create_patient_insurance_df(fr[ins.df])
      [] ins.fn = "create_med_necessity_df" -> create_med_necessity_df(fr[ins.df])
      [] ins.fn = "create_patient_status_df" -> create_patient_status_df(fr[ins.df])
      [] ins.fn = "create_emcontacts_df" -> create_emcontacts_df(fr[ins.df])
      [] ins.fn = "normalize_devices" -> normalize_devices(fr[ins.df])
      [] ins.fn = "normalize_bg_readings" -> normalize_bg_readings(fr[ins.df])
      [] ins.fn = "normalize_bp_readings" -> normalize_bp_readings(fr[ins.df])
      [] ins.fn = "rename_name_Vendor" -> Rename(fr[ins.df], [name |-> "Vendor"])
      [] ins.fn = "add_id_col" -> add_id_col(fr[ins.df], fr[ins.id_df], ins.col)
      [] OTHER -> fr[ins.df]

---------------------------------------------------------------------------
(* The run of __main__: one action per kind of statement.                  *)

FnIdle ==
    /\ arg = <<>>
    /\ ret = <<>>
    /\ stage = "idle"

Init ==
    /\ pc = 1
    /\ failed = FALSE
    /\ frames = [n \in FrameNames |-> <<>>]
    /\ \E legacy \in BOOLEAN : db = InitDb(legacy)
    /\ engines = <<>>
    /\ log = <<>>
    /\ last = [op |-> "none", at |-> 0]
    /\ FnIdle

Running == pc \in 1..Len(Program)
Cur == Program[pc]
Done == pc = Len(Program) + 1

\* A faulty variant: the error is swallowed and the run goes on.
AfterRaiseSwallowed(p) == p + 1

\* Where the process is after an unhandled exception at instruction p:
\* __main__ has no handler, the interpreter exits.
AfterRaise(p) == 0

Event(op, what) == [op |-> op, what |-> what]

ClearedDb(d) == [t \in Tables |-> IF t = "vendor" THEN d[t] ELSE <<>>]

\* self.engine = create_engine(url), on a new DatabaseManager.
CreateEngine ==
    /\ Running
    /\ Cur.op = "create_engine"
    /\ engines' = Append(engines, [mgr |-> Cur.mgr, database |-> Cur.database,
                                   disposed |-> FALSE])
    /\ log' = Append(log, Event("create_engine", Cur.mgr))
    /\ last' = [op |-> "create_engine", at |-> pc]
    /\ pc' = pc + 1
    /\ UNCHANGED <<failed, frames, db, fnVars>>

\* DatabaseManager.close: if self.engine: self.engine.dispose().
CloseDb ==
    /\ Running
    /\ Cur.op = "close"
    /\ engines' = [i \in 1..Len(engines) |->
                    IF engines[i].mgr = Cur.mgr
                    THEN [engines[i] EXCEPT !.disposed = TRUE]
                    ELSE engines[i]]
    /\ log' = Append(log, Event("close", Cur.mgr))
    /\ last' = [op |-> "close", at |-> pc]
    /\ pc' = pc + 1
    /\ UNCHANGED <<failed, frames, db, fnVars>>

\* gps.execute_query(stmt): any session call may throw.  What a stored
\* procedure or an UPDATE does to the rows is the database's business; the
\* one effect kept is that reset_all_billing_tables may empty the tables.
ExecuteQuery ==
    /\ Running
    /\ Cur.op = "execute_query"
    /\ \E fault \in Faults :
       \E returns_rows \in (IF fault = "execute" THEN {FALSE} ELSE BOOLEAN) :
        LET out == execute_query(fault, returns_rows)
            committed == fault \notin {"execute", "commit"}
        IN  /\ last' = [op |-> "execute_query", at |-> pc, out |-> out,
                        fault |-> fault, returns_rows |-> returns_rows]
            /\ \E cleared \in (IF committed /\ Cur.stmt = "reset_all_billing_tables"
                               THEN BOOLEAN ELSE {FALSE}) :
                db' = IF cleared THEN ClearedDb(db) ELSE db
            /\ pc' = IF out.raised THEN AfterRaise(pc) ELSE pc + 1
            /\ failed' = out.raised
    /\ log' = Append(log, Event("execute_query", Cur.stmt))
    /\ UNCHANGED <<frames, engines, fnVars>>

\* create_directory / get_files_in_dir / delete_files_in_dir on data/snaps.
PrepareDir ==
    /\ Running
    /\ Cur.op = "fs"
    /\ log' = Append(log, Event("fs", Cur.what))
    /\ last' = [op |-> "fs", at |-> pc]
    /\ pc' = pc + 1
    /\ UNCHANGED <<failed, frames, db, engines, fnVars>>

\* A source is read: the Graph API, the patient export, a source database.
Extract ==
    /\ Running
    /\ Cur.op = "extract"
    /\ \E f \in Source(Cur.src) : frames' = [frames EXCEPT ![Cur.out] = f]
    /\ log' = Append(log, Event("extract", Cur.src))
    /\ last' = [op |-> "extract", at |-> pc]
    /\ pc' = pc + 1
    /\ UNCHANGED <<failed, db, engines, fnVars>>

\* A frame operation of dataframe_utils.
Apply ==
    /\ Running
    /\ Cur.op = "apply"
    /\ frames' = [frames EXCEPT ![Cur.out] = ApplyFn(Cur, frames)]
    /\ log' = Append(log, Event("apply", Cur.fn))
    /\ last' = [op |-> "apply", at |-> pc]
    /\ pc' = pc + 1
    /\ UNCHANGED <<failed, db, engines, fnVars>>

\* self.gps.read_sql(stmt) on the destination database.
ReadSql ==
    /\ Running
    /\ Cur.op = "read_sql"
    /\ frames' = [frames EXCEPT ![Cur.out] = read_sql(Cur.stmt, db)]
    /\ log' = Append(log, Event("read_sql", Cur.stmt))
    /\ last' = [op |-> "read_sql", at |-> pc]
    /\ pc' = pc + 1
    /\ UNCHANGED <<failed, db, engines, fnVars>>

\* self.gps.to_sql(df, table, if_exists=...).
ToSql ==
    /\ Running
    /\ Cur.op = "to_sql"
    /\ LET out == to_sql(db[Cur.table], frames[Cur.df], Cur.table, Cur.if_exists)
       IN  /\ db' = [db EXCEPT ![Cur.table] = out.rows]
           /\ pc' = IF out.raised THEN AfterRaise(pc) ELSE pc + 1
           /\ failed' = out.raised
           /\ log' = IF out.raised THEN log ELSE Append(log, Event("to_sql", Cur.table))
    /\ last' = [op |-> "to_sql", at |-> pc]
    /\ UNCHANGED <<frames, engines, fnVars>>

\* df.to_excel(data/LCH_Billing_Report.xlsx).
ToExcel ==
    /\ Running
    /\ Cur.op = "to_excel"
    /\ log' = Append(log, Event("to_excel", Cur.df))
    /\ last' = [op |-> "to_excel", at |-> pc]
    /\ pc' = pc + 1
    /\ UNCHANGED <<failed, frames, db, engines, fnVars>>

\* The statements that can throw an exception nothing catches: a source or
\* the destination is unreachable, a file is missing, a frame lacks a
\* column the normalization expects.
CanRaise(ins) ==
    \/ ins.op \in {"extract", "read_sql", "to_sql", "fs", "to_excel"}
    \/ ins.op = "apply" /\ ins.fn \in {"normalize_users", "normalize_devices",
                                       "normalize_bg_readings", "normalize_bp_readings",
                                       "normalize_patient_notes"}

Raise ==
    /\ Running
    /\ CanRaise(Cur)
    /\ failed' = TRUE
    /\ pc' = AfterRaise(pc)
    /\ last' = [op |-> "raise", at |-> pc]
    /\ UNCHANGED <<frames, db, engines, log, fnVars>>

Next ==
    \/ CreateEngine
    \/ CloseDb
    \/ ExecuteQuery
    \/ PrepareDir
    \/ Extract
    \/ Apply
    \/ ReadSql
    \/ ToSql
    \/ ToExcel
    \/ Raise

Spec == Init /\ [][Next]_vars

---------------------------------------------------------------------------
(* normalize_patients, get_patient_data and import_patient_data on rows.   *)

\* utils.enums.state_abbreviations: abbreviation -> state name, in iteration
\* order.
state_abbreviations ==
    <<[name |-> <<"C", "A">>, keyword |-> <<"c", "a", "l", "i", "f", "o", "r", "n", "i", "a">>],
      [name |-> <<"N", "Y">>, keyword |-> <<"n", "e", "w", " ", "y", "o", "r", "k">>]>>

standardize_state(state) ==
    Str(Upper(keyword_search(Title(Strip(PyStr(state))), state_abbreviations, TRUE).v))

\* Series.astype(str).str.replace(r'\D', '', regex=True)
DigitsOnly(x) == Str(SelectSeq(PyStr(x), LAMBDA c : c \in Digits))

\* Series.astype(str).str.split('-', n=1).str[0]
BeforeHyphen(x) ==
    LET cs == PyStr(x)
        at == {i \in 1..Len(cs) : cs[i] = "-"}
    IN  Str(IF at = {} THEN cs
            ELSE SubSeq(cs, 1, (CHOOSE i \in at : \A j \in at : i <= j) - 1))

\* df.replace(r'(?i)^nan$', None, regex=True): a text cell that reads 'nan'
\* in any case (a final line feed allowed, as $ allows it) becomes None.
\* The numeric key column is not a text column.
NanTextToNone(row) ==
    [c \in DOMAIN row |->
        IF c = "sharepoint_id" THEN row[c]
        ELSE IF row[c].t = "str"
                /\ Lower(row[c].v) \in {<<"n", "a", "n">>, <<"n", "a", "n", "\n">>}
        THEN None
        ELSE row[c]]

\* The columns of the export whose normalization is modelled; the other
\* columns of a row are carried as normalize_patients leaves them.
ExportCols ==
    {"ID", "Phone Number", "Social Security", "State", "Zip code", "EmergencyName",
     "EmergencyNumber", "EmergencyName2", "EmergencyNumber2", "Medicare ID number",
     "DX_Code"}

normalize_patients(df) ==
    [i \in 1..Len(df) |->
        LET r == df[i]
        IN  NanTextToNone(
                [sharepoint_id |-> r["ID"],
                 phone_number |-> DigitsOnly(r["Phone Number"]),
                 social_security |-> DigitsOnly(r["Social Security"]),
                 temp_state |-> standardize_state(r["State"]),
                 zipcode |-> BeforeHyphen(r["Zip code"]),
                 emergency_relationship |->
                     standardize_emcontact_relationship(r["EmergencyName"]),
                 emergency_relationship2 |->
                     standardize_emcontact_relationship(r["EmergencyName2"]),
                 emergency_full_name |-> standardize_name(r["EmergencyName"], "emergency"),
                 emergency_phone_number |-> DigitsOnly(r["EmergencyNumber"]),
                 emergency_full_name2 |-> standardize_name(r["EmergencyName2"], "emergency"),
                 emergency_phone_number2 |-> DigitsOnly(r["EmergencyNumber2"]),
                 medicare_beneficiary_id |-> standardize_mbi(r["Medicare ID number"]),
                 temp_dx_code |-> standardize_dx_code(r["DX_Code"])]
                @@ [c \in (DOMAIN r) \ ExportCols |-> r[c]])]

\* A faulty variant: the digit-stripped contact numbers are not taken from
\* the text rendering, so a missing number stays missing.
get_patient_data_fn_null_phone(export) ==
    LET null(d) ==
            [i \in 1..Len(d) |->
                [d[i] EXCEPT !["emergency_phone_number"] =
                                 IF export[i]["EmergencyNumber"] = NaN THEN NaN ELSE @,
                             !["emergency_phone_number2"] =
                                 IF export[i]["EmergencyNumber2"] = NaN THEN NaN ELSE @]]
        df == check_patient_db_constraints(null(normalize_patients(export)))
    IN  [patient |-> create_patient_df(df),
         address |-> create_patient_address_df(df),
         insurance |-> create_patient_insurance_df(df),
         med_nec |-> create_med_necessity_df(df),
         status |-> create_patient_status_df(df),
         emcontacts |-> create_emcontacts_df(df)]

\* DataImporter.get_patient_data on the frame read_csv returned.
get_patient_data_fn(export) ==
    LET df == check_patient_db_constraints(normalize_patients(export))
    IN  [patient |-> create_patient_df(df),
         address |-> create_patient_address_df(df),
         insurance |-> create_patient_insurance_df(df),
         med_nec |-> create_med_necessity_df(df),
         status |-> create_patient_status_df(df),
         emcontacts |-> create_emcontacts_df(df)]

\* DataImporter.import_patient_data on the tables of the destination: the
\* tables after its six appends.
import_patient_data_fn(patient_data, tables) ==
    LET append(ts, df, table) ==
            [ts EXCEPT ![table] = to_sql(@, df, table, "append").rows]
        t1 == append(tables, patient_data.patient, "patient")
        patient_id_df == read_sql("get_patient_id_stmt", t1)
        joined(name) == add_id_col(patient_data[name], patient_id_df, "sharepoint_id")
        t2 == append(t1, joined("address"), "patient_address")
        t3 == append(t2, joined("insurance"), "patient_insurance")
        t4 == append(t3, joined("med_nec"), "medical_necessity")
        t5 == append(t4, joined("status"), "patient_status")
    IN  append(t5, joined("emcontacts"), "emergency_contact")

---------------------------------------------------------------------------
(* RestAdapter (src/utils/api_utils.py).                                   *)

ApplicationJson == <<"a", "p", "p", "l", "i", "c", "a", "t", "i", "o", "n", "/", "j", "s", "o", "n">>
TextHtml == <<"t", "e", "x", "t", "/", "h", "t", "m", "l">>

\* Content-Type headers a server may send; <<>> stands for no header.
ContentTypes ==
    {ApplicationJson,
     <<"A", "p", "p", "l", "i", "c", "a", "t", "i", "o", "n", "/", "J", "S", "O", "N">>,
     TextHtml,
     <<"i", "m", "a", "g", "e", "/", "p", "n", "g">>,
     <<>>}

\* Retry(connect=3, backoff_factor=0.5): the transport's own retry budget.
ConnectRetries == 3

\* A faulty variant: requests.exceptions.Timeout has no handler.
_send_request_no_timeout_handler(method, endpoint, t) ==
    IF t.transport = "prepare_error"
    THEN [raised |-> TRUE, logged |-> FALSE, kind |-> "None", body |-> "", method |-> method]
    ELSE IF t.transport = "timeout"
    THEN [raised |-> TRUE, logged |-> FALSE, kind |-> "None", body |-> "", method |-> method]
    ELSE IF t.transport \in {"connection_error", "request_exception"}
            \/ t.refused > ConnectRetries \/ t.status >= 400
    THEN [raised |-> FALSE, logged |-> TRUE, kind |-> "None", body |-> "", method |-> method]
    ELSE LET content_type == Lower(t.content_type)
         IN  IF IsInfix(ApplicationJson, content_type)
             THEN IF t.body_is_json
                  THEN [raised |-> FALSE, logged |-> FALSE, kind |-> "json",
                        body |-> t.body, method |-> method]
                  ELSE [raised |-> t.json_error_escapes, logged |-> ~t.json_error_escapes,
                        kind |-> "None", body |-> "", method |-> method]
             ELSE IF IsInfix(TextHtml, content_type)
             THEN [raised |-> FALSE, logged |-> FALSE, kind |-> "text",
                   body |-> t.body, method |-> method]
             ELSE [raised |-> FALSE, logged |-> FALSE, kind |-> "bytes",
                   body |-> t.body, method |-> method]

\* RestAdapter._send_request.  t says what the network does: prepare_request
\* throws (outside the try), session.send throws, or a response arrives
\* after t.refused refused connections (the adapter retries ConnectRetries
\* times, then send throws ConnectionError).  response.json() on a body that
\* is no JSON throws an error that, depending on the installed requests
\* version, is or is not a RequestException (t.json_error_escapes).
_send_request(method, endpoint, t) ==
    IF t.transport = "prepare_error"
    THEN [raised |-> TRUE, logged |-> FALSE, kind |-> "None", body |-> "", method |-> method]
    ELSE IF t.transport \in {"connection_error", "timeout", "request_exception"}
            \/ t.refused > ConnectRetries \/ t.status >= 400
    THEN [raised |-> FALSE, logged |-> TRUE, kind |-> "None", body |-> "", method |-> method]
    ELSE LET content_type == Lower(t.content_type)
         IN  IF IsInfix(ApplicationJson, content_type)
             THEN IF t.body_is_json
                  THEN [raised |-> FALSE, logged |-> FALSE, kind |-> "json",
                        body |-> t.body, method |-> method]
                  ELSE [raised |-> t.json_error_escapes, logged |-> ~t.json_error_escapes,
                        kind |-> "None", body |-> "", method |-> method]
             ELSE IF IsInfix(TextHtml, content_type)
             THEN [raised |-> FALSE, logged |-> FALSE, kind |-> "text",
                   body |-> t.body, method |-> method]
             ELSE [raised |-> FALSE, logged |-> FALSE, kind |-> "bytes",
                   body |-> t.body, method |-> method]

get(endpoint, t) == _send_request("GET", endpoint, t)
post(endpoint, t) == _send_request("POST", endpoint, t)
put(endpoint, t) == _send_request("PUT", endpoint, t)
delete(endpoint, t) == _send_request("DELETE", endpoint, t)

---------------------------------------------------------------------------
(* MSGraphApi (src/utils/api_utils.py) and its caller get_user_data.       *)

LoginUrl == "https://login.microsoftonline.com"
GraphUrl == "https://graph.microsoft.com/v1.0"

Bearer == <<"B", "e", "a", "r", "e", "r", " ">>

\* A decoded JSON body: an object with its members, or an array.
JsonObject(members) == [type |-> "object", members |-> members]
JsonArray == [type |-> "array", members |-> <<>>]

\* A body that is not JSON.
RawBody == [type |-> "raw", members |-> <<>>]

\* dict.get(key): the member, or None when the object has none of that name.
DictGet(body, key) == IF key \in DOMAIN body.members THEN body.members[key] ELSE None

\* MSGraphApi.__init__ sets the ids and the secret; there is no attribute
\* rest yet (rest is <<>>, and <<client>> once it is set).  calls records
\* the method calls made on the object, each with the HTTP request it issued
\* (<<>> if it issued none); a request without the header has Authorization
\* None.
MSGraphApi_init == [rest |-> <<>>, calls |-> <<>>, data |-> <<>>]

\* A faulty variant: the Graph client is built without the headers.
request_access_token_no_headers(self, t) ==
    LET res == post("/tenant_id/oauth2/v2.0/token", t)
        request == IF t.transport = "prepare_error" THEN <<>>
                   ELSE <<[method |-> "POST", base_url |-> LoginUrl, Authorization |-> None]>>
        has_get == ~res.raised /\ res.kind = "json" /\ res.body.type = "object"
    IN  IF has_get
        THEN [self EXCEPT
                !.rest = <<[base_url |-> GraphUrl, headers |-> [Authorization |-> None]]>>,
                !.calls = Append(@, [name |-> "request_access_token", raised |-> FALSE,
                                     request |-> request])]
        ELSE [self EXCEPT
                !.calls = Append(@, [name |-> "request_access_token", raised |-> TRUE,
                                     request |-> request])]

\* A faulty variant: a token response that is no JSON object is absorbed, and
\* the Graph client is built without a token.
request_access_token_absorbing(self, t) ==
    LET res == post("/tenant_id/oauth2/v2.0/token", t)
        request == IF t.transport = "prepare_error" THEN <<>>
                   ELSE <<[method |-> "POST", base_url |-> LoginUrl, Authorization |-> None]>>
        has_get == ~res.raised /\ res.kind = "json" /\ res.body.type = "object"
        access_token == IF has_get THEN DictGet(res.body, "access_token") ELSE None
        headers == [Authorization |-> Str(Bearer \o PyStr(access_token))]
    IN  IF res.raised
        THEN [self EXCEPT
                !.calls = Append(@, [name |-> "request_access_token", raised |-> TRUE,
                                     request |-> request])]
        ELSE [self EXCEPT
                !.rest = <<[base_url |-> GraphUrl, headers |-> headers]>>,
                !.calls = Append(@, [name |-> "request_access_token", raised |-> FALSE,
                                     request |-> request])]

\* MSGraphApi.request_access_token, t being what the network does to the
\* POST.  The POST goes through a RestAdapter of its own, without headers.
\* res.get raises AttributeError unless res is a dict: post returned None, a
\* text, bytes or a JSON array.  An exception of post itself propagates.
request_access_token(self, t) ==
    LET res == post("/tenant_id/oauth2/v2.0/token", t)
        request == IF t.transport = "prepare_error" THEN <<>>
                   ELSE <<[method |-> "POST", base_url |-> LoginUrl, Authorization |-> None]>>
        has_get == ~res.raised /\ res.kind = "json" /\ res.body.type = "object"
    IN  IF has_get
        THEN LET access_token == DictGet(res.body, "access_token")
                 headers == [Authorization |-> Str(Bearer \o PyStr(access_token))]
             IN  [self EXCEPT
                     !.rest = <<[base_url |-> GraphUrl, headers |-> headers]>>,
                     !.calls = Append(@, [name |-> "request_access_token", raised |-> FALSE,
                                          request |-> request])]
        ELSE [self EXCEPT
                !.calls = Append(@, [name |-> "request_access_token", raised |-> TRUE,
                                     request |-> request])]

\* MSGraphApi.get_group_members: self.rest.get(endpoint).  Without the
\* attribute rest the call raises AttributeError before any request.
get_group_members(self, t) ==
    IF self.rest = <<>>
    THEN [self EXCEPT
            !.calls = Append(@, [name |-> "get_group_members", raised |-> TRUE,
                                 request |-> <<>>])]
    ELSE LET res == get("/groups/group_id/members", t)
             request == IF t.transport = "prepare_error" THEN <<>>
                        ELSE <<[method |-> "GET", base_url |-> self.rest[1].base_url,
                                Authorization |-> self.rest[1].headers.Authorization]>>
         IN  [self EXCEPT
                 !.data = IF res.raised THEN @ ELSE <<[kind |-> res.kind, body |-> res.body]>>,
                 !.calls = Append(@, [name |-> "get_group_members", raised |-> res.raised,
                                      request |-> request])]

\* The calls get_user_data makes on the MSGraphApi object it builds.
get_user_data_calls == <<"request_access_token", "get_group_members">>

---------------------------------------------------------------------------
(* Function-level specifications: the argument is drawn in Init from a     *)
(* bounded set, the one action applies the function.                       *)

\* The pipeline is not running in a function-level specification.
PipeIdle ==
    /\ pc = 0
    /\ failed = FALSE
    /\ frames = <<>>
    /\ db = <<>>
    /\ engines = <<>>
    /\ log = <<>>
    /\ last = <<>>

MaxBad == 1
MaxCheckRows == 2
MaxKey == 3
MaxJoinRows == 3
MaxIdRows == 2

\* A row whose columns in bad hold the value given by kind and whose other
\* columns are exactly as long as the limit allows.
ShapedRow(bad, kind) ==
    [c \in CheckCols |->
        IF c \notin bad THEN Str(Rep("1", ColumnLimit[c]))
        ELSE IF kind = "over" THEN Str(Rep("1", ColumnLimit[c] + 1))
        ELSE IF kind = "None" THEN None
        ELSE NaN]

CheckRowShapes ==
    {ShapedRow(bad, "over") : bad \in {b \in SUBSET CheckCols : Cardinality(b) <= MaxBad}}
    \cup {ShapedRow(CheckCols, "over"), TestRow}
    \cup {ShapedRow({c}, "None") : c \in CheckCols}
    \cup {ShapedRow({c}, "nan") : c \in {"temp_state", "zipcode"}}

\* A frame of patient rows; sharepoint_id is the row's position in the export.
WithKey(shapes) ==
    [i \in 1..Len(shapes) |-> ("sharepoint_id" :> i) @@ shapes[i]]

CheckFrames == {WithKey(s) : s \in SeqUpTo(CheckRowShapes, MaxCheckRows)}

InitCheck ==
    /\ PipeIdle
    /\ arg \in CheckFrames
    /\ ret = <<>>
    /\ stage = "call"

CallCheck ==
    /\ stage = "call"
    /\ ret' = check_patient_db_constraints(arg)
    /\ stage' = "done"
    /\ UNCHANGED <<arg, pipeVars>>

SpecCheck == InitCheck /\ [][CallCheck]_vars

\* The natural-key frame (col, reading) and the id-lookup frame (col, patient_id).
JoinFrames ==
    {[i \in 1..Len(ks) |-> [sharepoint_id |-> ks[i], reading |-> i]] :
        ks \in SeqUpTo(1..MaxKey, MaxJoinRows)}

IdFrames ==
    {[j \in 1..Len(ks) |-> [sharepoint_id |-> ks[j], patient_id |-> 100 + j]] :
        ks \in SeqUpTo(1..MaxKey, MaxIdRows)}

InitJoin ==
    /\ PipeIdle
    /\ arg \in [df : JoinFrames, id_df : IdFrames, col : {"sharepoint_id"}]
    /\ ret = <<>>
    /\ stage = "call"

CallJoin ==
    /\ stage = "call"
    /\ ret' = add_id_col(arg.df, arg.id_df, arg.col)
    /\ stage' = "done"
    /\ UNCHANGED <<arg, pipeVars>>

SpecJoin == InitJoin /\ [][CallJoin]_vars

\* What the network can do to one request.
Transports ==
    [transport : {"prepare_error", "connection_error", "timeout", "request_exception"},
     refused : {0}, status : {0}, content_type : {<<>>}, body_is_json : {FALSE},
     json_error_escapes : {FALSE}, body : {"B"}]
    \cup
    [transport : {"response"}, refused : 0..(ConnectRetries + 1),
     status : {200, 404, 500}, content_type : ContentTypes, body_is_json : BOOLEAN,
     json_error_escapes : BOOLEAN, body : {"B"}]

InitRest ==
    /\ PipeIdle
    /\ arg \in [method : {"GET", "POST", "PUT", "DELETE"}, endpoint : {"/test"},
                t : Transports]
    /\ ret = <<>>
    /\ stage = "call"

CallRest ==
    /\ stage = "call"
    /\ ret' = CASE arg.method = "GET" -> get(arg.endpoint, arg.t)
                [] arg.method = "POST" -> post(arg.endpoint, arg.t)
                [] arg.method = "PUT" -> put(arg.endpoint, arg.t)
                [] arg.method = "DELETE" -> delete(arg.endpoint, arg.t)
    /\ stage' = "done"
    /\ UNCHANGED <<arg, pipeVars>>

SpecRest == InitRest /\ [][CallRest]_vars

MaxCodes == 2
MaxMedRows == 2

\* Diagnosis codes as standardize_dx_code writes them.
DxCodes == {<<"E", "1", "1", "9">>, <<"I", "1", "0">>}

\* The temp_dx_code values of a normalized export: the comma-joined list of
\* up to MaxCodes codes (the empty text for none), or a missing value.
DxFields == {Str(JoinComma(cs)) : cs \in SeqUpTo(DxCodes, MaxCodes)} \cup {None}

\* A frame of the columns create_med_necessity_df reads and one it does not;
\* sharepoint_id is the row's position in the export.
MedNecFrames ==
    {[i \in 1..Len(ds) |->
        [sharepoint_id |-> i, evaluation_datetime |-> Str(Rep("d", i)),
         temp_dx_code |-> ds[i], city |-> T("c")]] :
     ds \in SeqUpTo(DxFields, MaxMedRows)}

InitMedNec ==
    /\ PipeIdle
    /\ arg \in MedNecFrames
    /\ ret = <<>>
    /\ stage = "call"

CallMedNec ==
    /\ stage = "call"
    /\ ret' = create_med_necessity_df(arg)
    /\ stage' = "done"
    /\ UNCHANGED <<arg, pipeVars>>

SpecMedNec == InitMedNec /\ [][CallMedNec]_vars

MaxEmcRows == 1

\* What a contact column can hold: a name or nothing; a number, the empty
\* text or nothing; a relationship or nothing.
EmcNames(c) == {Str(<<c>>), None}
EmcPhones == {Str(Rep("1", 10)), Str(<<>>), NaN}
EmcRelationships == {Str(<<"S", "p", "o", "u", "s", "e">>), NaN}

EmcRows ==
    [emergency_full_name : EmcNames("J"), emergency_phone_number : EmcPhones,
     emergency_relationship : EmcRelationships,
     emergency_full_name2 : EmcNames("K"), emergency_phone_number2 : EmcPhones,
     emergency_relationship2 : {NaN}, city : {T("c")}]

EmcFrames == {WithKey(rs) : rs \in SeqUpTo(EmcRows, MaxEmcRows)}

InitEmc ==
    /\ PipeIdle
    /\ arg \in EmcFrames
    /\ ret = <<>>
    /\ stage = "call"

CallEmc ==
    /\ stage = "call"
    /\ ret' = create_emcontacts_df(arg)
    /\ stage' = "done"
    /\ UNCHANGED <<arg, pipeVars>>

SpecEmc == InitEmc /\ [][CallEmc]_vars

\* The three payer columns after the standardizers ran: a standardized
\* text, the text a missing cell was rendered to ('Nan', 'NAN'), or a null.
PayerNames ==
    {Str(MedicarePartB), Str(<<"A", "e", "t", "n", "a">>),
     Str(<<"M", "e", "d", "i", "c", "a", "i", "d">>), Str(<<"N", "a", "n">>), NaN}
PayerIds ==
    {Str(<<"A", "B", "C", "1", "2", "3", "X", "Y", "Z">>), Str(<<"9", "9", "1">>),
     Str(<<"N", "A", "N">>), NaN}
MedicareIds ==
    {Str(<<"1", "E", "G", "4", "T", "E", "5", "M", "K", "7", "3">>),
     Str(<<"1", "2", "3", "4", "5">>), Str(<<"N", "A", "N">>), NaN}

PayerRows ==
    {("Insurance Name:" :> n) @@ ("Insurance ID:" :> i) @@ ("Medicare ID number" :> m)
     @@ ("City" :> T("c")) : n \in PayerNames, i \in PayerIds, m \in MedicareIds}

InitPayer ==
    /\ PipeIdle
    /\ arg \in {<<r>> : r \in PayerRows}
    /\ ret = <<>>
    /\ stage = "call"

CallPayer ==
    /\ stage = "call"
    /\ ret' = fill_payer_columns(arg)
    /\ stage' = "done"
    /\ UNCHANGED <<arg, pipeVars>>

SpecPayer == InitPayer /\ [][CallPayer]_vars

\* Keyword tables: those of test_keyword_list_search, two with a group of
\* two keywords in either order of the entries, one with a capitalised keyword.
KeywordTables ==
    {<<[name |-> <<"M", "e", "d", "i", "c", "a", "r", "e">>, keyword_sets |-> <<<<<<"m", "e", "d", "i", "c", "a", "r", "e">>>>>>],
       [name |-> <<"M", "e", "d", "i", "c", "a", "i", "d">>, keyword_sets |-> <<<<<<"m", "e", "d", "i", "c", "a", "i", "d">>>>>>]>>,
     <<[name |-> <<"B", "l", "u", "e", " ", "C", "r", "o", "s", "s">>, keyword_sets |-> <<<<<<"b", "l", "u", "e">>, <<"c", "r", "o", "s", "s">>>>>>],
       [name |-> <<"B", "l", "u", "e">>, keyword_sets |-> <<<<<<"b", "l", "u", "e">>>>, <<<<"a", "n", "t", "h", "e", "m">>>>>>]>>,
     <<[name |-> <<"B", "l", "u", "e">>, keyword_sets |-> <<<<<<"b", "l", "u", "e">>>>>>],
       [name |-> <<"B", "l", "u", "e", " ", "C", "r", "o", "s", "s">>, keyword_sets |-> <<<<<<"b", "l", "u", "e">>, <<"c", "r", "o", "s", "s">>>>>>]>>,
     <<[name |-> <<"M", "e", "d", "i", "c", "a", "r", "e">>, keyword_sets |-> <<<<<<"M", "e", "d", "i", "c", "a", "r", "e">>>>>>],
       [name |-> <<"O", "t", "h", "e", "r">>, keyword_sets |-> <<<<<<"i", "n", "s", "u", "r", "a", "n", "c", "e">>>>>>]>>}

SearchValues ==
    {<<"I", " ", "h", "a", "v", "e", " ", "M", "e", "d", "i", "c", "a", "r", "e">>,
     <<"I", " ", "h", "a", "v", "e", " ", "m", "e", "d", "i", "c", "a", "i", "d">>,
     <<"I", " ", "h", "a", "v", "e", " ", "i", "n", "s", "u", "r", "a", "n", "c", "e">>,
     <<"p", "r", "e", "m", "e", "d", "i", "c", "a", "r", "e", " ", "p", "l", "a", "n">>,
     <<"B", "l", "u", "e", " ", "C", "r", "o", "s", "s">>,
     <<"c", "r", "o", "s", "s", " ", "o", "f", " ", "B", "L", "U", "E">>,
     <<"b", "l", "u", "e", " ", "s", "h", "i", "e", "l", "d">>,
     <<"a", "n", "t", "h", "e", "m">>,
     <<"m", "e", "d", "i", "c", "a", "r", "e", ",", " ", "m", "e", "d", "i", "c", "a", "i", "d">>,
     <<>>}

InitSearch ==
    /\ PipeIdle
    /\ arg \in [value : SearchValues, keywords : KeywordTables, keep_original : BOOLEAN]
    /\ ret = <<>>
    /\ stage = "call"

CallSearch ==
    /\ stage = "call"
    /\ ret' = keyword_list_search(arg.value, arg.keywords, arg.keep_original)
    /\ stage' = "done"
    /\ UNCHANGED <<arg, pipeVars>>

SpecSearch == InitSearch /\ [][CallSearch]_vars

MaxDxLen == 4

\* Raw diagnosis fields: short texts over a small alphabet, the texts of
\* test_standardize_dx_code, and missing values.
DxAlphabet == {"e", "I", "1", "9", ".", "|", " "}

DxInputs ==
    {Str(cs) : cs \in SeqUpTo(DxAlphabet, MaxDxLen)}
    \cup {Str(<<"E", "1", "1", ".", "9", ",", " ", "I", "1", "0">>), Str(<<"I", "1", "0", ",", " ", "E", "1", "1", ".", "9">>), None, NaN}

InitDx ==
    /\ PipeIdle
    /\ arg \in DxInputs
    /\ ret = <<>>
    /\ stage = "call"

CallDx ==
    /\ stage = "call"
    /\ ret' = standardize_dx_code(arg)
    /\ stage' = "done"
    /\ UNCHANGED <<arg, pipeVars>>

SpecDx == InitDx /\ [][CallDx]_vars

MaxWeightLen == 4

WeightAlphabet == {"1", "0", "I", "n", "f", "t", "'", "\"", " "}

\* Raw weight fields: short texts, the texts of test_standardize_weight, and
\* missing values.
WeightInputs ==
    {Str(cs) : cs \in SeqUpTo(WeightAlphabet, MaxWeightLen)}
    \cup {Str(<<"1", "5", "0", " ", "l", "b", "s">>), Str(<<"i", "n", "v", "a", "l", "i", "d", "-", "w", "e", "i", "g", "h", "t">>), Str(<<"1", " ", "5", " ", "0", " ", "9", " ", "l", "b">>), None, NaN}

InitWeight ==
    /\ PipeIdle
    /\ arg \in WeightInputs
    /\ ret = <<>>
    /\ stage = "call"

CallWeight ==
    /\ stage = "call"
    /\ ret' = standardize_weight(arg)
    /\ stage' = "done"
    /\ UNCHANGED <<arg, pipeVars>>

SpecWeight == InitWeight /\ [][CallWeight]_vars

MaxHeightLen == 4

HeightAlphabet == {"5", "8", "'", "\"", " ", "K", "g"}

\* Raw height fields: short texts, the texts of test_standardize_height, and
\* missing values.
HeightInputs ==
    {Str(cs) : cs \in SeqUpTo(HeightAlphabet, MaxHeightLen)}
    \cup {Str(<<"5", "'", "8", "\"">>), Str(<<"i", "n", "v", "a", "l", "i", "d", "-", "h", "e", "i", "g", "h", "t">>), Str(<<"5", "f", "t", " ", "1", "0", "i", "n">>), Str(<<"1", "5", "0", " ", "L", "B", "S">>), None, NaN}

InitHeight ==
    /\ PipeIdle
    /\ arg \in HeightInputs
    /\ ret = <<>>
    /\ stage = "call"

CallHeight ==
    /\ stage = "call"
    /\ ret' = standardize_height(arg)
    /\ stage' = "done"
    /\ UNCHANGED <<arg, pipeVars>>

SpecHeight == InitHeight /\ [][CallHeight]_vars

MaxWords == 2

VocabWords ==
    {<<"w", "h", "i", "t", "e">>, <<"B", "L", "A", "C", "K">>, <<"u", "n", "k", "n", "o", "w", "n">>, <<"h", "i", "s", "p", "a", "n", "i", "c">>, <<"s", "p", "o", "u", "s", "e">>, <<"C", "h", "i", "l", "d">>, <<"a", "f", "r", "i", "c", "a", "n">>, <<"A", "m", "e", "r", "i", "c", "a", "n">>}

\* ' '.join(words)
RECURSIVE JoinSpace(_)
JoinSpace(words) ==
    IF words = <<>> THEN <<>>
    ELSE IF Len(words) = 1 THEN words[1]
    ELSE words[1] \o <<" ">> \o JoinSpace(Tail(words))

\* Raw race and relationship fields: up to MaxWords words, and missing values.
VocabInputs ==
    {Str(JoinSpace(ws)) : ws \in SeqUpTo(VocabWords, MaxWords)} \cup {None, NaN}

InitVocab ==
    /\ PipeIdle
    /\ arg \in [fn : {"standardize_race", "standardize_emcontact_relationship"},
                 value : VocabInputs]
    /\ ret = <<>>
    /\ stage = "call"

CallRace ==
    /\ stage = "call"
    /\ arg.fn = "standardize_race"
    /\ ret' = standardize_race(arg.value)
    /\ stage' = "done"
    /\ UNCHANGED <<arg, pipeVars>>

CallRelationship ==
    /\ stage = "call"
    /\ arg.fn = "standardize_emcontact_relationship"
    /\ ret' = standardize_emcontact_relationship(arg.value)
    /\ stage' = "done"
    /\ UNCHANGED <<arg, pipeVars>>

SpecVocab == InitVocab /\ [][CallRace \/ CallRelationship]_vars

MaxCalls == 3

Failure(kind) ==
    [transport |-> kind, refused |-> 0, status |-> 0, content_type |-> <<>>,
     body_is_json |-> FALSE, json_error_escapes |-> FALSE, body |-> RawBody]

Response(status, content_type, body_is_json, json_error_escapes, body) ==
    [transport |-> "response", refused |-> 0, status |-> status,
     content_type |-> content_type, body_is_json |-> body_is_json,
     json_error_escapes |-> json_error_escapes, body |-> body]

Tokens == {Str(<<"t", "o", "k", "A">>), Str(<<"t", "o", "k", "B">>)}

\* What the token endpoint can answer: a token, a JSON object without
\* one, a JSON array, a page of text, a body that is no JSON, an error.
TokenTransports ==
    {Response(200, ApplicationJson, TRUE, FALSE, JsonObject([access_token |-> tok])) :
        tok \in Tokens}
    \cup {Response(200, ApplicationJson, TRUE, FALSE, JsonObject([error |-> Str(<<"e">>)])),
          Response(200, ApplicationJson, TRUE, FALSE, JsonArray),
          Response(200, TextHtml, FALSE, FALSE, RawBody),
          Response(200, ApplicationJson, FALSE, TRUE, RawBody),
          Response(200, ApplicationJson, FALSE, FALSE, RawBody),
          Response(401, ApplicationJson, TRUE, FALSE, JsonObject([error |-> Str(<<"e">>)])),
          Failure("connection_error"), Failure("timeout"), Failure("prepare_error")}

MemberTransports ==
    {Response(200, ApplicationJson, TRUE, FALSE, JsonObject([value |-> Str(<<"m", "e", "m", "b", "e", "r", "s">>)])),
     Response(404, ApplicationJson, TRUE, FALSE, JsonObject([error |-> Str(<<"e">>)])),
     Failure("connection_error")}

\* The object is driven by get_user_data, or by a caller that makes up to
\* MaxCalls calls in any order (as the tests do).
InitGraph ==
    /\ PipeIdle
    /\ arg \in [caller : {"get_user_data", "any"},
                 tokens : [1..MaxCalls -> TokenTransports],
                 members : MemberTransports]
    /\ \A k \in 3..MaxCalls : arg.tokens[k] = arg.tokens[2]
    /\ ret = MSGraphApi_init
    /\ stage = "call"

\* The caller makes this call next; an exception ends the caller.
MayCall(name) ==
    /\ stage = "call"
    /\ IF arg.caller = "get_user_data"
       THEN /\ Len(ret.calls) < Len(get_user_data_calls)
            /\ get_user_data_calls[Len(ret.calls) + 1] = name
       ELSE Len(ret.calls) < MaxCalls

TokenCalls(calls) == {i \in 1..Len(calls) : calls[i].name = "request_access_token"}

CallRequestAccessToken ==
    /\ MayCall("request_access_token")
    /\ ret' = request_access_token(ret, arg.tokens[Cardinality(TokenCalls(ret.calls)) + 1])
    /\ stage' = IF ret'.calls[Len(ret'.calls)].raised THEN "raised" ELSE "call"
    /\ UNCHANGED <<arg, pipeVars>>

CallGetGroupMembers ==
    /\ MayCall("get_group_members")
    /\ ret' = get_group_members(ret, arg.members)
    /\ stage' = IF ret'.calls[Len(ret'.calls)].raised THEN "raised" ELSE "call"
    /\ UNCHANGED <<arg, pipeVars>>

SpecGraph == InitGraph /\ [][CallRequestAccessToken \/ CallGetGroupMembers]_vars

\* Raw identifier fields: the identifier of test_standardize_mbi written in
\* groups of 4, 3 and 4 with or without separators, padding and a further
\* character, in either letter case; and what is no identifier.
MbiSeparators == {<<>>, <<"-">>, <<" ">>}

MbiInputs ==
    {Str(pad \o g1 \o s1 \o g2 \o s2 \o g3 \o more \o pad) :
        pad \in {<<>>, <<" ">>}, s1 \in MbiSeparators, s2 \in MbiSeparators,
        more \in {<<>>, <<"9">>, <<"-", "9">>},
        g1 \in {<<"1", "E", "G", "4">>, <<"1", "e", "g", "4">>}, g2 \in {<<"T", "E", "5">>}, g3 \in {<<"M", "K", "7", "3">>}}
    \cup {Str(<<"i", "n", "v", "a", "l", "i", "d", "-", "m", "b", "i">>), Str(<<>>), None, NaN}

InitMbi ==
    /\ PipeIdle
    /\ arg \in MbiInputs
    /\ ret = <<>>
    /\ stage = "call"

CallMbi ==
    /\ stage = "call"
    /\ ret' = standardize_mbi(arg)
    /\ stage' = "done"
    /\ UNCHANGED <<arg, pipeVars>>

SpecMbi == InitMbi /\ [][CallMbi]_vars

MaxNameLen == 4

NameAlphabet == {"j", "D", "1", " ", "-"}

\* Raw name fields: short texts, the text of test_standardize_name, and
\* missing values.
NameInputs ==
    {Str(cs) : cs \in SeqUpTo(NameAlphabet, MaxNameLen)}
    \cup {Str(<<" ", "j", "o", "h", "n", " ", "d", "o", "e", " ">>), Str(<<"n", "e", "w", " ", " ", "y", "o", "r", "k">>), None, NaN}

InitName ==
    /\ PipeIdle
    /\ arg \in [name : NameInputs, class : DOMAIN NameClass]
    /\ ret = <<>>
    /\ stage = "call"

CallName ==
    /\ stage = "call"
    /\ ret' = standardize_name(arg.name, arg.class)
    /\ stage' = "done"
    /\ UNCHANGED <<arg, pipeVars>>

SpecName == InitName /\ [][CallName]_vars

MaxExportRows == 1

\* What read_csv yields for the modelled columns of the export: a text or,
\* for an empty field, NaN.
ExportStates == {Str(<<"c", "a", "l", "i", "f", "o", "r", "n", "i", "a">>), Str(<<"C", "A">>), NaN}
ExportNames == {Str(<<"j", "o", " ", "d", "o", "e">>), NaN}
ExportNumbers == {Str(<<"(", "5", "5", "5", ")", " ", "1", "2", "3", "-", "4", "5", "6", "7">>), NaN}
ExportDx == {Str(<<"E", "1", "1", ".", "9">>), Str(<<"n", "/", "a">>), NaN}

ExportRow(state, name, number, name2, number2, dx) ==
    LET carried == PatientRow(1, 10)
        normalized ==
            {"sharepoint_id", "phone_number", "social_security", "temp_state", "zipcode",
             "emergency_relationship", "emergency_relationship2", "emergency_full_name",
             "emergency_phone_number", "emergency_full_name2", "emergency_phone_number2",
             "medicare_beneficiary_id", "temp_dx_code"}
    IN  [c \in (DOMAIN carried) \ normalized |-> carried[c]]
        @@ ("Phone Number" :> Str(<<"5", "5", "5", "-", "1", "2", "3", "-", "4", "5", "6", "7">>)) @@ ("Social Security" :> Str(<<"1", "2", "3", "-", "4", "5", "-", "6", "7", "8", "9">>))
        @@ ("State" :> state) @@ ("Zip code" :> Str(<<"1", "2", "3", "4", "5", "-", "6", "7", "8", "9">>))
        @@ ("EmergencyName" :> name) @@ ("EmergencyNumber" :> number)
        @@ ("EmergencyName2" :> name2) @@ ("EmergencyNumber2" :> number2)
        @@ ("Medicare ID number" :> Str(<<"1", "E", "G", "4", "T", "E", "5", "M", "K", "7", "3">>))
        @@ ("DX_Code" :> dx)

ExportRows ==
    {ExportRow(state, name, number, name2, number2, dx) :
        state \in ExportStates, name \in ExportNames, number \in ExportNumbers,
        name2 \in ExportNames, number2 \in ExportNumbers, dx \in ExportDx}

\* The ID column of the export is the row's position.
ExportFrames ==
    {[i \in 1..Len(rs) |-> ("ID" :> i) @@ rs[i]] : rs \in SeqUpTo(ExportRows, MaxExportRows)}

InitPatients ==
    /\ PipeIdle
    /\ arg \in [export : ExportFrames, legacy : BOOLEAN]
    /\ ret = <<>>
    /\ stage = "call"

CallGetPatientData ==
    /\ stage = "call"
    /\ ret' = [res |-> get_patient_data_fn(arg.export)]
    /\ stage' = "got"
    /\ UNCHANGED <<arg, pipeVars>>

CallImportPatientData ==
    /\ stage = "got"
    /\ ret' = [res |-> ret.res, db |-> import_patient_data_fn(ret.res, InitDb(arg.legacy))]
    /\ stage' = "done"
    /\ UNCHANGED <<arg, pipeVars>>

SpecPatients == InitPatients /\ [][CallGetPatientData \/ CallImportPatientData]_vars

---------------------------------------------------------------------------
(* Claims about add_id_col and check_patient_db_constraints.               *)

\* C3: add_id_col has inner-join semantics: an input row is in the output
\* exactly when its key equals the key of some lookup row, every output row
\* carries the surrogate id of a lookup row with its key, the output has no
\* column named col, and 3 rows against a lookup with 2 of their keys give
\* exactly 2 rows.
C3_InnerJoin ==
    stage = "done" =>
        LET df == arg.df
            id_df == arg.id_df
            col == arg.col
            keys(f) == {f[i][col] : i \in 1..Len(f)}
        IN  /\ \A i \in 1..Len(df) :
                (\E o \in Range(ret) : o.reading = df[i].reading)
                    <=> (\E j \in 1..Len(id_df) : id_df[j][col] = df[i][col])
            /\ \A o \in Range(ret) :
                /\ col \notin DOMAIN o
                /\ \E i \in 1..Len(df), j \in 1..Len(id_df) :
                    /\ df[i].reading = o.reading
                    /\ id_df[j][col] = df[i][col]
                    /\ id_df[j].patient_id = o.patient_id
            /\ (/\ Len(df) = 3 /\ Cardinality(keys(df)) = 3
                /\ Len(id_df) = 2 /\ Cardinality(keys(id_df)) = 2
                /\ keys(id_df) \subseteq keys(df))
                    => Len(ret) = 2

\* Three natural-key rows, a lookup holding two of the keys, two rows out.
C3_Witness ==
    /\ stage = "done"
    /\ Len(arg.df) = 3
    /\ Cardinality({arg.df[i].sharepoint_id : i \in 1..3}) = 3
    /\ Len(arg.id_df) = 2
    /\ arg.id_df[1].sharepoint_id # arg.id_df[2].sharepoint_id
    /\ Len(ret) = 2

\* C4: a row is retained exactly when all nine length checks hold for it.
C4_AllNineChecks ==
    stage = "done" =>
        \A i \in 1..Len(arg) :
            (arg[i] \in Range(ret))
                <=> (\A c \in CheckCols : Len(PyStr(arg[i][c])) <= ColumnLimit[c])

\* A 12-digit phone number is excluded next to a retained 10-digit one.
C4_Witness ==
    /\ stage = "done"
    /\ \E i \in 1..Len(arg) :
        /\ Len(PyStr(arg[i].phone_number)) = 12
        /\ arg[i] \notin Range(ret)
    /\ \E i \in 1..Len(arg) :
        /\ Len(PyStr(arg[i].phone_number)) = 10
        /\ arg[i] \in Range(ret)

\* C5: the filter only drops rows: the output is the input restricted to the
\* retained rows, in input order and with every field unchanged, and the
\* filter applied to its own output changes nothing.
C5_OnlyDrops ==
    stage = "done" =>
        /\ ret = SelectSeq(arg, LAMBDA r : r \in Range(ret))
        /\ Range(ret) \subseteq Range(arg)
        /\ Len(ret) <= Len(arg)
        /\ check_patient_db_constraints(ret) = ret

\* The first of two rows is dropped and the second kept as it was.
C5_Witness ==
    /\ stage = "done"
    /\ Len(arg) = 2
    /\ Len(ret) = 1
    /\ ret[1] = arg[2]

---------------------------------------------------------------------------
(* Claims about the run of import_all_data and create_billing_report.      *)

IsPrefix(a, b) == Len(a) <= Len(b) /\ SubSeq(b, 1, Len(a)) = a
Count(l, e) == Cardinality({i \in 1..Len(l) : l[i] = e})
Whats(l, op) ==
    LET sel == SelectSeq(l, LAMBDA e : e.op = op)
    IN  [i \in 1..Len(sel) |-> sel[i].what]

AppendOrder ==
    <<"user", "patient", "patient_address", "patient_insurance", "medical_necessity",
      "patient_status", "emergency_contact", "device", "glucose_reading",
      "blood_pressure_reading">>

\* An id-lookup read of table t at position i of the log follows an append of t.
ReadFollowsAppend(i) ==
    \E j \in 1..(i - 1) : log[j] = Event("to_sql", StmtTable[log[i].what])

IsLookup(i) == log[i].op = "read_sql" /\ log[i].what \in DOMAIN StmtTable

\* C1 as stated: the appends happen in the fixed order, and every id-lookup
\* read (patient, vendor, device ids) follows the append of the table it reads.
C1_Original ==
    /\ IsPrefix(Whats(log, "to_sql"), AppendOrder)
    /\ \A i \in 1..Len(log) : IsLookup(i) => ReadFollowsAppend(i)

\* C1, amended: the appends happen in the fixed order (all ten in a run that
\* completes); every read of patient ids or device ids follows the append of
\* patient or device; the vendor ids are read from a table that no run
\* appends to.
C1_OrderedAppends ==
    /\ IsPrefix(Whats(log, "to_sql"), AppendOrder)
    /\ Done => Whats(log, "to_sql") = AppendOrder
    /\ \A i \in 1..Len(log) :
        IsLookup(i) /\ StmtTable[log[i].what] \in {"patient", "device"}
            => ReadFollowsAppend(i)
    /\ \A i \in 1..Len(log) : log[i] # Event("to_sql", "vendor")

\* A run that ended normally: all ten appends and all lookups were made.
C1_Witness ==
    /\ Done
    /\ ~failed
    /\ Count(log, Event("read_sql", "get_vendor_id_stmt")) = 1
    /\ Count(log, Event("read_sql", "get_device_id_stmt")) = 2
    /\ Len(db["glucose_reading"]) > 0

\* The six source-entity groups: the source read and the table appended.
Groups ==
    {[src |-> "ms_graph", table |-> "user"],
     [src |-> "patient_export", table |-> "patient"],
     [src |-> "fulfillment", table |-> "device"],
     [src |-> "bg_readings", table |-> "glucose_reading"],
     [src |-> "bp_readings", table |-> "blood_pressure_reading"],
     [src |-> "notes", table |-> "patient_note"]}

\* C2: a run that completes has extracted and appended each of the six
\* groups exactly once, the extraction before the append, and the notes
\* after the patients.
C2_EachGroupOnce ==
    Done =>
        /\ \A g \in Groups :
            /\ Count(log, Event("extract", g.src)) = 1
            /\ Count(log, Event("to_sql", g.table)) = 1
            /\ \E i, j \in 1..Len(log) :
                i < j /\ log[i] = Event("extract", g.src) /\ log[j] = Event("to_sql", g.table)
        /\ \E i, j \in 1..Len(log) :
            i < j /\ log[i] = Event("to_sql", "patient")
                  /\ log[j] = Event("to_sql", "patient_note")

SourceSystems == {"FULFILLMENT", "READINGS", "NOTES", "TIME"}

\* C6: at the end of a run without an unhandled failure every engine created
\* was disposed, and each source system's engine was created once.
C6_EnginesReleased ==
    Done =>
        /\ \A i \in 1..Len(engines) : engines[i].disposed
        /\ \A d \in SourceSystems :
            Cardinality({i \in 1..Len(engines) : engines[i].database = d}) <= 1

C9_AbortKeepsRows ==
    [][/\ failed => UNCHANGED <<pc, db, log, engines, frames>>
       /\ failed' => (db' = db /\ log' = log /\ pc' \notin 1..Len(Program))
       /\ pc' # pc => (pc' = pc + 1 \/ failed')]_vars

\* The run died in import_all_data after rows were appended.
C9_Witness ==
    /\ failed
    /\ last.op = "raise"
    /\ Program[last.at] = ToSqlI("dim.gps", "device_df", "device", "append")
    /\ Len(db["patient_address"]) > 0

ImporterWrites ==
    import_user_data \o import_patient_data \o import_patient_note_data
    \o import_device_data \o import_gluc_readings_data \o import_bp_readings_data

\* C10: every batch write of DataImporter asks for append mode, and a write
\* leaves the rows every table held in place, adding rows to its own table
\* only.
C10_AppendOnly ==
    /\ \A i \in 1..Len(ImporterWrites) :
        ImporterWrites[i].op = "to_sql" =>
            /\ ImporterWrites[i].if_exists = "append"
            /\ ImporterWrites[i].table \in Tables \ {"vendor"}
    /\ [][(Running /\ Cur.op = "to_sql") =>
            \A t \in Tables :
                /\ IsPrefix(db[t], db'[t])
                /\ t # Cur.table => db'[t] = db[t]]_vars

\* Patients were appended to a patient table that already held a row.
C10_Witness ==
    /\ last.op = "to_sql"
    /\ Program[last.at].table = "patient"
    /\ ~failed
    /\ Len(db["patient"]) = 3
    /\ db["patient"][1] = LegacyRows("patient")[1]

---------------------------------------------------------------------------
(* Claims about RestAdapter.                                               *)

\* The request ended in a transport failure: send threw, the connection was
\* refused more often than the adapter retries, or the status is an error.
TransportFailure(t) ==
    \/ t.transport \in {"connection_error", "timeout", "request_exception"}
    \/ t.transport = "response" /\ (t.refused > 3 \/ t.status >= 400)

---------------------------------------------------------------------------
(* Claims about the rows the run appends.                                  *)

ReadingTables == {"glucose_reading", "blood_pressure_reading"}

\* C11: every row appended to glucose_reading or blood_pressure_reading
\* carries the surrogate patient_id of its patient and the device_id of a
\* device of that patient.
C11_ReadingsLinked ==
    \A t \in ReadingTables :
        \A i \in 1..Len(db[t]) :
            LET r == db[t][i]
            IN  /\ "patient_id" \in DOMAIN r
                /\ "device_id" \in DOMAIN r
                /\ \E j \in 1..Len(db["device"]) :
                    /\ db["device"][j].device_id = r.device_id
                    /\ db["device"][j].patient_id = r.patient_id

---------------------------------------------------------------------------
(* Claims about the record-shaping functions.                              *)

\* The number of codes a comma-joined text lists: its commas plus one.
ListedCodes(x) == Cardinality({k \in 1..Len(x.v) : x.v[k] = ","}) + 1

\* The row lists at least one code.
ListsCodes(r) == ~IsNull(r.temp_dx_code) /\ r.temp_dx_code.v # <<>>

\* C12: an input row listing n >= 1 codes gives exactly n output rows, one
\* per code in list order, each with the row's sharepoint_id and
\* evaluation_datetime and no other column; the rows of the output are in
\* input order, and when every input row lists codes the output has as many
\* rows as the input lists codes.
C12_ExplodePerCode ==
    stage = "done" =>
        /\ \A i \in 1..Len(arg) :
            ListsCodes(arg[i]) =>
                LET outs == SelectSeq(ret, LAMBDA o : o.sharepoint_id = arg[i].sharepoint_id)
                    codes == [k \in 1..Len(outs) |-> outs[k].temp_dx_code.v]
                IN  /\ Len(outs) = ListedCodes(arg[i].temp_dx_code)
                    /\ JoinComma(codes) = arg[i].temp_dx_code.v
                    /\ \A k \in 1..Len(outs) :
                        /\ "," \notin Range(codes[k])
                        /\ codes[k] # <<>>
                        /\ outs[k].evaluation_datetime = arg[i].evaluation_datetime
                        /\ DOMAIN outs[k] = {"evaluation_datetime", "temp_dx_code", "sharepoint_id"}
        /\ \A k \in 1..(Len(ret) - 1) : ret[k].sharepoint_id <= ret[k + 1].sharepoint_id
        /\ (\A i \in 1..Len(arg) : ListsCodes(arg[i])) =>
            \E total \in 0..(MaxCodes * MaxMedRows) :
                /\ total = Len(ret)
                /\ total = Cardinality({<<i, k>> \in (1..Len(arg)) \X (1..MaxCodes) :
                                            k <= ListedCodes(arg[i].temp_dx_code)})

\* 'E119,I10' gave two rows, E119 then I10, both with the patient's key.
C12_Witness ==
    /\ stage = "done"
    /\ Len(arg) = 1
    /\ arg[1].temp_dx_code = Str(<<"E", "1", "1", "9", ",", "I", "1", "0">>)
    /\ Len(ret) = 2
    /\ ret[1].temp_dx_code = Str(<<"E", "1", "1", "9">>)
    /\ ret[2].temp_dx_code = Str(<<"I", "1", "0">>)
    /\ ret[2].sharepoint_id = 1

\* The primary and the secondary contact of an export row, as contact rows.
PrimaryContact(r) ==
    [full_name |-> r.emergency_full_name, phone_number |-> r.emergency_phone_number,
     relationship |-> r.emergency_relationship, sharepoint_id |-> r.sharepoint_id]

SecondaryContact(r) ==
    [full_name |-> r.emergency_full_name2, phone_number |-> r.emergency_phone_number2,
     relationship |-> r.emergency_relationship2, sharepoint_id |-> r.sharepoint_id]

\* Neither the name nor the phone number of the contact is a missing value.
Complete(c) == c.full_name.t = "str" /\ c.phone_number.t = "str"

\* C13: the result holds, for every patient, the primary and the secondary
\* contact exactly when the contact's name and phone number are both present
\* (so at most two rows per patient), each as a row of full_name,
\* phone_number, relationship and sharepoint_id, and nothing else.
C13_ContactsDropped ==
    stage = "done" =>
        /\ \A i \in 1..Len(arg) :
            /\ (PrimaryContact(arg[i]) \in Range(ret)) <=> Complete(PrimaryContact(arg[i]))
            /\ (SecondaryContact(arg[i]) \in Range(ret)) <=> Complete(SecondaryContact(arg[i]))
            /\ Cardinality({k \in 1..Len(ret) : ret[k].sharepoint_id = arg[i].sharepoint_id}) <= 2
        /\ \A k \in 1..Len(ret) :
            /\ DOMAIN ret[k] = {"full_name", "phone_number", "relationship", "sharepoint_id"}
            /\ \E i \in 1..Len(arg) : ret[k] \in {PrimaryContact(arg[i]), SecondaryContact(arg[i])}
        /\ Len(ret) = Cardinality({<<i, c>> \in (1..Len(arg)) \X {1, 2} :
                           Complete(IF c = 1 THEN PrimaryContact(arg[i])
                                    ELSE SecondaryContact(arg[i]))})

\* The secondary contact has a name and no phone number: one row, the primary.
C13_Witness ==
    /\ stage = "done"
    /\ Len(arg) = 1
    /\ Complete(PrimaryContact(arg[1]))
    /\ arg[1].emergency_full_name2.t = "str"
    /\ arg[1].emergency_phone_number2 = NaN
    /\ ret = <<PrimaryContact(arg[1])>>

---------------------------------------------------------------------------
(* Claims about the field standardizers of normalize_patients.             *)

\* The source field was missing: a null, or the text a null was rendered to.
Missing(x) == x.t # "str" \/ x.v \in {<<"n", "a", "n">>, <<"N", "a", "n">>, <<"N", "A", "N">>}

\* The value of a field, a missing one being the null.
Val(x) == IF Missing(x) THEN NaN ELSE x

\* C14: with the primary name and id both missing and a Medicare id present,
\* the name becomes 'Medicare Part B' and the id the Medicare id; with a name
\* or an id recorded the name is left as it is, and the id becomes the
\* Medicare id only when the name is 'Medicare Part B' and the id is missing.
C14_PrimaryPayerFallback ==
    stage = "done" =>
        LET name == arg[1]["Insurance Name:"]
            id == arg[1]["Insurance ID:"]
            mbi == arg[1]["Medicare ID number"]
            out == ret[1]
        IN  /\ (Missing(name) /\ Missing(id) /\ ~Missing(mbi)) =>
                /\ out["Insurance Name:"] = Str(MedicarePartB)
                /\ out["Insurance ID:"] = mbi
            /\ ~(Missing(name) /\ Missing(id)) =>
                /\ out["Insurance Name:"] = Val(name)
                /\ out["Insurance ID:"] =
                        IF name = Str(MedicarePartB) /\ Missing(id) THEN Val(mbi) ELSE Val(id)
            /\ Val(out["Medicare ID number"]) = Val(mbi)
            /\ out["City"] = arg[1]["City"]

\* No payer recorded, a Medicare id present: Medicare Part B with that id.
C14_Witness ==
    /\ stage = "done"
    /\ arg[1]["Insurance Name:"] = Str(<<"N", "a", "n">>)
    /\ arg[1]["Insurance ID:"] = Str(<<"N", "A", "N">>)
    /\ arg[1]["Medicare ID number"].v = <<"1", "E", "G", "4", "T", "E", "5", "M", "K", "7", "3">>
    /\ ret[1]["Insurance Name:"] = Str(MedicarePartB)
    /\ ret[1]["Insurance ID:"] = arg[1]["Medicare ID number"]

\* Entry e of the table has a group all of whose keywords occur as whole
\* words in the value, letter case apart.
EntryMatches(e, value) ==
    \E g \in 1..Len(e.keyword_sets) :
        \A k \in 1..Len(e.keyword_sets[g]) :
            SearchWord(Lower(e.keyword_sets[g][k]), Lower(value))

\* C15: the result is the name of the first entry with a group all of whose
\* keywords occur as whole words in the value, whatever the letter case of
\* the value and of the keywords; with no such entry it is the value itself
\* if keep_original is set and the missing marker otherwise.
C15_FirstMatchingGroup ==
    stage = "done" =>
        LET hits == {i \in 1..Len(arg.keywords) : EntryMatches(arg.keywords[i], arg.value)}
        IN  IF hits = {}
            THEN ret = (IF arg.keep_original THEN Str(arg.value) ELSE NaN)
            ELSE \E i \in hits :
                    /\ \A j \in hits : i <= j
                    /\ ret = Str(arg.keywords[i].name)

\* C16: the result is the comma-joined list, in order of occurrence, of
\* the substrings of the upper-cased input made of one letter of {E, I, R},
\* digits and an optional '.digits', each without its decimal point; so every
\* code in it starts with E, I or R and holds only that letter and digits,
\* and it is empty when nothing matches.
C16_DxCodes ==
    stage = "done" =>
        LET codes == DxMatches(Upper(Strip(PyStr(arg))), {"E", "I", "R"})
        IN  /\ ret = Str(JoinComma(codes))
            /\ ret.v # <<>> =>
                \A k \in 1..Len(Split(ret.v, ",")) :
                    LET code == Split(ret.v, ",")[k]
                    IN  /\ code # <<>>
                        /\ code[1] \in {"E", "I", "R"}
                        /\ \A n \in 2..Len(code) : code[n] \in Digits

\* The text holds token tok at some position, letter case apart.
HoldsToken(cs, tok) ==
    \E k \in 1..Len(cs) :
        /\ k + Len(tok) - 1 <= Len(cs)
        /\ \A n \in 1..Len(tok) : Lower(<<cs[k + n - 1]>>) = <<tok[n]>>

\* C17: the result is the missing marker exactly when the input holds one of
\* ', ", ft, in (letter case apart); otherwise it is the number written by
\* the first three (or fewer) digits of the input, 0 with no digit, and so
\* lies in 0..999.
C17_Weight ==
    stage = "done" =>
        LET text == PyStr(arg)
            pos == {k \in 1..Len(text) : text[k] \in Digits}
            nth(n) == CHOOSE k \in pos : Cardinality({j \in pos : j < k}) = n - 1
            d(n) == IF Cardinality(pos) >= n THEN DigitVal[text[nth(n)]] ELSE 0
            count == IF Cardinality(pos) > 3 THEN 3 ELSE Cardinality(pos)
            number == CASE count = 0 -> 0
                        [] count = 1 -> d(1)
                        [] count = 2 -> d(1) * 10 + d(2)
                        [] count = 3 -> d(1) * 100 + d(2) * 10 + d(3)
        IN  /\ (ret = NaN) <=>
                    \E tok \in {<<"'">>, <<"\"">>, <<"f", "t">>, <<"i", "n">>} : HoldsToken(text, tok)
            /\ ret # NaN => (ret = IntVal(number) /\ ret.n \in 0..999)

\* '150 lbs' gives 150.
C17_Witness ==
    /\ stage = "done"
    /\ arg = Str(<<"1", "5", "0", " ", "l", "b", "s">>)
    /\ ret = IntVal(150)

\* C18: with 'lbs' or 'kg' in the input (letter case apart) the result is the
\* missing marker; otherwise an input made of an integer f, then non-digits,
\* then possibly an integer i and more non-digits, gives f*12 + i (i = 0 when
\* absent).
C18_Height ==
    stage = "done" =>
        LET text == PyStr(arg)
            n == Len(text)
            digit(k) == text[k] \in Digits
        IN  IF HoldsToken(text, <<"l", "b", "s">>) \/ HoldsToken(text, <<"k", "g">>)
            THEN ret = NaN
            ELSE /\ \A a \in 1..n :
                       /\ \A k \in 1..a : digit(k)
                       /\ \A k \in (a + 1)..n : ~digit(k)
                       => ret = IntVal(ToInt(SubSeq(text, 1, a)) * 12)
                 /\ \A a \in 1..n, b \in 1..n, c \in 1..n :
                       /\ a + b + c <= n
                       /\ \A k \in 1..a : digit(k)
                       /\ \A k \in (a + 1)..(a + b) : ~digit(k)
                       /\ \A k \in (a + b + 1)..(a + b + c) : digit(k)
                       /\ \A k \in (a + b + c + 1)..n : ~digit(k)
                       => ret = IntVal(ToInt(SubSeq(text, 1, a)) * 12
                                       + ToInt(SubSeq(text, a + b + 1, a + b + c)))

\* 5'8" gives 68.
C18_Witness ==
    /\ stage = "done"
    /\ arg = Str(<<"5", "'", "8", "\"">>)
    /\ ret = IntVal(68)

\* C19: an input that matches no keyword gives 'Unknown' for the race and the
\* missing marker for the relationship; an input that matches gives the name
\* of the first matching entry of the vocabulary.
C19_VocabFallback ==
    stage = "done" =>
        LET text == PyStr(arg.value)
            races == {i \in 1..Len(race_keywords) : EntryMatches(race_keywords[i], text)}
            relations == {i \in 1..Len(relationship_keywords) :
                            SearchWord(relationship_keywords[i].keyword, Lower(text))}
        IN  /\ arg.fn = "standardize_race" =>
                IF races = {} THEN ret = Str(<<"U", "n", "k", "n", "o", "w", "n">>)
                ELSE \E i \in races :
                        /\ \A j \in races : i <= j
                        /\ ret = Str(race_keywords[i].name)
            /\ arg.fn = "standardize_emcontact_relationship" =>
                IF relations = {} THEN ret = NaN
                ELSE \E i \in relations :
                        /\ \A j \in relations : i <= j
                        /\ ret = Str(relationship_keywords[i].name)

\* C20: standardize_height always returns a number or the missing marker NaN,
\* and for a text without a leading integer and without 'lbs' or 'kg' it
\* returns NaN.
C20_HeightTotal ==
    stage = "done" =>
        LET text == LStrip(PyStr(arg))
        IN  /\ ret = NaN \/ (ret.t = "int" /\ ret.n \in Nat)
            /\ (text = <<>> \/ text[1] \notin Digits) => ret = NaN

---------------------------------------------------------------------------
(* Claims about MSGraphApi.                                                *)

\* C21: the object has a REST client only after a token exchange completed;
\* every listing request goes to the Graph API with the header Authorization
\* = 'Bearer T', T being the access token of the latest completed exchange;
\* get_user_data calls request_access_token once and then get_group_members
\* once.
C21_TokenBeforeListing ==
    LET calls == ret.calls
        exchanged(i) == {j \in 1..(i - 1) :
                            calls[j].name = "request_access_token" /\ ~calls[j].raised}
    IN  /\ ret.rest # <<>> => exchanged(Len(calls) + 1) # {}
        /\ \A i \in 1..Len(calls) :
              (calls[i].name = "get_group_members" /\ calls[i].request # <<>>) =>
                  /\ exchanged(i) # {}
                  /\ LET j == CHOOSE x \in exchanged(i) : \A y \in exchanged(i) : y <= x
                         k == Cardinality({x \in 1..j : calls[x].name = "request_access_token"})
                         members == arg.tokens[k].body.members
                     IN  /\ calls[i].request[1].method = "GET"
                         /\ calls[i].request[1].base_url = "https://graph.microsoft.com/v1.0"
                         /\ "access_token" \in DOMAIN members =>
                               calls[i].request[1].Authorization
                                   = Str(<<"B", "e", "a", "r", "e", "r", " ">> \o members.access_token.v)
        /\ arg.caller = "get_user_data" =>
              \/ calls = <<>>
              \/ Len(calls) = 1 /\ calls[1].name = "request_access_token"
              \/ /\ Len(calls) = 2
                 /\ calls[1].name = "request_access_token" /\ ~calls[1].raised
                 /\ calls[2].name = "get_group_members"

\* get_user_data got a token and listed the members with it.
C21_Witness ==
    /\ arg.caller = "get_user_data"
    /\ Len(ret.calls) = 2
    /\ ret.calls[2].name = "get_group_members"
    /\ ~ret.calls[2].raised
    /\ ret.calls[2].request # <<>>
    /\ ret.calls[2].request[1].Authorization = Str(<<"B", "e", "a", "r", "e", "r", " ", "t", "o", "k", "A">>)
    /\ ret.data # <<>>

---------------------------------------------------------------------------
(* Claims about the identifier and name standardizers.                     *)

\* C22: the result is the first run of 11 characters of A-Z0-9 of the
\* trimmed, upper-cased input; an identifier written with separators is
\* reduced to its 11 alphanumeric characters; any other input without such
\* a run comes back trimmed and upper-cased.
C22_Mbi ==
    stage = "done" =>
        LET value == Upper(Strip(PyStr(arg)))
            alnum == SelectSeq(value, LAMBDA c : c \in UpperLetters \cup Digits)
            runs == {k \in 1..(Len(value) - 10) :
                        \A n \in k..(k + 10) : value[n] \in UpperLetters \cup Digits}
        IN  /\ runs # {} => \E k \in runs : /\ \A o \in runs : k <= o
                                             /\ ret = Str(SubSeq(value, k, k + 10))
            /\ (runs = {} /\ Len(alnum) = 11) => ret = Str(alnum)
            /\ (runs = {} /\ Len(alnum) # 11) => ret = Str(value)

\* C23: the result has no leading or trailing whitespace and no two
\* consecutive whitespace characters, is title-cased, and holds only
\* characters of the class of its field.
C23_NameShape ==
    stage = "done" =>
        LET r == ret.v
            space(k) == r[k] \in {" ", "\t", "\n"}
            letter(k) == r[k] \in LowerLetters \cup UpperLetters
        IN  /\ r # <<>> => (~space(1) /\ ~space(Len(r)))
            /\ \A k \in 1..(Len(r) - 1) : ~(space(k) /\ space(k + 1))
            /\ \A k \in 1..Len(r) :
                  letter(k) =>
                      IF k > 1 /\ letter(k - 1) THEN r[k] \in LowerLetters
                      ELSE r[k] \in UpperLetters
            /\ \A k \in 1..Len(r) : r[k] \in NameClass[arg.class]

---------------------------------------------------------------------------
(* Claims about the statements issued around the import.                   *)

BillingProcedures ==
    <<"reset_medical_code_tables", "batch_medcode_99202", "batch_medcode_99453_bg",
      "batch_medcode_99453_bp", "batch_medcode_99454_bg", "batch_medcode_99454_bp",
      "batch_medcode_99457", "batch_medcode_99458">>

BillingOrder ==
    [i \in 1..Len(BillingProcedures) |-> Event("execute_query", BillingProcedures[i])]
    \o <<Event("read_sql", "create_billing_report"), Event("to_excel", "report_df")>>

FixUps ==
    <<"update_patient_note_stmt", "update_patient_status_stmt", "update_user_stmt",
      "update_user_note_stmt">>

---------------------------------------------------------------------------
(* Claims about the rows the patient pipeline and the readings yield.      *)

RawReadings == [glucose_reading |-> "gluc_raw", blood_pressure_reading |-> "bp_raw"]

\* C26: after an append of readings, every reading read from the source is in
\* the table once per pair of a patient row with its SharePoint id and a
\* device row of that patient: k rows of the device table give k copies,
\* whatever the device, and no device row gives none, manual reading or not.
C26_ReadingPerDevice ==
    \A t \in DOMAIN RawReadings :
        (last.op = "to_sql" /\ ~failed /\ Program[last.at].table = t) =>
            LET raw == frames[RawReadings[t]]
                patient == db["patient"]
                device == db["device"]
                pairs(manual) ==
                    {p \in (1..Len(raw)) \X (1..Len(patient)) \X (1..Len(device)) :
                        /\ raw[p[1]].Manual_Reading = manual
                        /\ patient[p[2]].sharepoint_id = raw[p[1]].SharePoint_ID
                        /\ device[p[3]].patient_id = patient[p[2]].patient_id}
                copies(manual) ==
                    {i \in 1..Len(db[t]) : db[t][i].is_manual = (IF manual THEN 1 ELSE 0)}
            IN  \A manual \in BOOLEAN :
                    Cardinality(copies(manual)) = Cardinality(pairs(manual))

\* A reading of a patient with two devices was appended twice, and a manual
\* reading of a patient without a device was not appended.
C26_Witness ==
    /\ last.op = "to_sql"
    /\ ~failed
    /\ Program[last.at].table = "glucose_reading"
    /\ Len(frames["gluc_raw"]) = 2
    /\ Len(db["patient"]) = 2
    /\ Len(db["device"]) = 2
    /\ db["device"][1].patient_id = db["device"][2].patient_id
    /\ Len(db["glucose_reading"]) = 2
    /\ \A i \in 1..2 : db["glucose_reading"][i].is_manual = 0

---------------------------------------------------------------------------
(* Claims about missing values in the patient batch.                       *)

\* C27: check_patient_db_constraints measures a missing value by the length
\* of its text ('None' or 'nan'). A row whose temp_state is missing is
\* excluded; a row whose temp_state is present is kept whenever every
\* present value of the nine checked columns is within its limit, whichever
\* of the other eight columns are missing.
C27_MissingState ==
    stage = "done" =>
        \A i \in 1..Len(arg) :
            LET r == arg[i]
                missing(c) == r[c] \in {None, NaN}
            IN  /\ missing("temp_state") => r \notin Range(ret)
                /\ ( /\ ~missing("temp_state")
                     /\ \A c \in CheckCols :
                            missing(c) \/ Len(r[c].v) <= ColumnLimit[c] )
                   => r \in Range(ret)

\* A row without a state was excluded next to a row without a zipcode, which
\* was kept.
C27_Witness ==
    /\ stage = "done"
    /\ Len(arg) = 2
    /\ arg[1].temp_state = None
    /\ arg[2].zipcode = NaN
    /\ arg[2].temp_state # None
    /\ Len(ret) = 1
    /\ ret[1] = arg[2]

\* C28: through normalize_patients, check_patient_db_constraints and
\* create_emcontacts_df a missing contact number becomes the empty text: a
\* contact of a patient of the batch with a name and no number is in the
\* contact list with phone_number '' and is appended to emergency_contact,
\* and the list holds one contact per named slot of the patient, so a contact
\* without a name is not in it.
C28_ContactWithoutNumber ==
    stage = "done" =>
        \A i \in 1..Len(arg.export) :
            LET r == arg.export[i]
                slots == {<<"EmergencyName", "EmergencyNumber">>,
                          <<"EmergencyName2", "EmergencyNumber2">>}
                inBatch == \E k \in 1..Len(ret.res.patient) :
                               ret.res.patient[k].sharepoint_id = i
                listed == {k \in 1..Len(ret.res.emcontacts) :
                               ret.res.emcontacts[k].sharepoint_id = i}
                ids == {ret.db["patient"][k].patient_id :
                            k \in {j \in 1..Len(ret.db["patient"]) :
                                       ret.db["patient"][j].sharepoint_id = i}}
            IN  /\ Cardinality(listed) =
                       (IF inBatch THEN Cardinality({s \in slots : r[s[1]] # NaN}) ELSE 0)
                /\ \A s \in slots :
                       (inBatch /\ r[s[1]] # NaN /\ r[s[2]] = NaN) =>
                           /\ \E k \in listed :
                                  /\ ret.res.emcontacts[k].full_name
                                         = standardize_name(r[s[1]], "emergency")
                                  /\ ret.res.emcontacts[k].phone_number = Str(<<>>)
                           /\ \E k \in 1..Len(ret.db["emergency_contact"]) :
                                  /\ ret.db["emergency_contact"][k].patient_id \in ids
                                  /\ ret.db["emergency_contact"][k].full_name
                                         = standardize_name(r[s[1]], "emergency")
                                  /\ ret.db["emergency_contact"][k].phone_number = Str(<<>>)

\* A patient whose first contact has no name and whose second contact has a
\* name and no number: the only contact appended is the second, with ''.
C28_Witness ==
    /\ stage = "done"
    /\ ~arg.legacy
    /\ Len(arg.export) = 1
    /\ arg.export[1]["EmergencyName"] = NaN
    /\ arg.export[1]["EmergencyName2"] # NaN
    /\ arg.export[1]["EmergencyNumber2"] = NaN
    /\ Len(ret.db["emergency_contact"]) = 1
    /\ ret.db["emergency_contact"][1].phone_number = Str(<<>>)
    /\ ret.db["emergency_contact"][1].full_name = Str(<<"J", "o", " ", "D", "o", "e">>)

---------------------------------------------------------------------------
(* Claims about a failed token exchange.                                   *)

\* The POST to the token endpoint failed and RestAdapter.post returned None.
PostFailed(t) ==
    \/ t.transport \in {"connection_error", "timeout"}
    \/ t.transport = "response" /\ t.status >= 400

\* The token endpoint answered with a JSON object without an access_token.
NoTokenObject(t) ==
    /\ t.transport = "response" /\ t.status < 400
    /\ IsInfix(ApplicationJson, Lower(t.content_type))
    /\ t.body_is_json
    /\ t.body.type = "object"
    /\ "access_token" \notin DOMAIN t.body.members

\* C29: a request_access_token whose POST failed raises and leaves the
\* object's REST client as it was, so get_user_data ends there with no client
\* and no listing; a token response that is a JSON object without
\* access_token installs the client with the header 'Bearer None'; the
\* extraction of get_user_data is the first statement of the run that can
\* stop it, no append precedes it, and nothing resumes the run after it.
C29_TokenFailureRaises ==
    /\ [](LET calls == ret.calls
              first == CHOOSE i \in 1..Len(Program) :
                          /\ Program[i].op = "extract"
                          /\ \A j \in 1..(i - 1) : Program[j].op # "extract"
          IN  /\ ( /\ arg.caller = "get_user_data"
                   /\ calls # <<>>
                   /\ PostFailed(arg.tokens[1]) )
                 => /\ stage = "raised"
                    /\ Len(calls) = 1
                    /\ calls[1].raised
                    /\ ret.rest = <<>>
                    /\ ret.data = <<>>
              /\ Program[first].src = "ms_graph"
              /\ \A j \in 1..(first - 1) : Program[j].op # "to_sql"
              /\ AfterRaise(first) \notin 1..Len(Program))
    /\ [][ (Len(ret'.calls) = Len(ret.calls) + 1
            /\ ret'.calls[Len(ret'.calls)].name = "request_access_token")
           => LET t == arg.tokens[Cardinality(TokenCalls(ret'.calls))]
                  call == ret'.calls[Len(ret'.calls)]
              IN  /\ PostFailed(t) =>
                        /\ call.raised
                        /\ stage' = "raised"
                        /\ ret'.rest = ret.rest
                  /\ NoTokenObject(t) =>
                        /\ ~call.raised
                        /\ ret'.rest =
                               <<[base_url |-> "https://graph.microsoft.com/v1.0",
                                  headers |-> [Authorization |-> Str(<<"B", "e", "a", "r", "e", "r", " ", "N", "o", "n", "e">>)]]>> ]_vars

\* get_user_data asked for a token, the connection failed, and the call
\* ended get_user_data with no client and no listing.
C29_Witness ==
    /\ arg.caller = "get_user_data"
    /\ arg.tokens[1].transport = "connection_error"
    /\ stage = "raised"
    /\ Len(ret.calls) = 1
    /\ ret.calls[1].name = "request_access_token"
    /\ ret.calls[1].raised
    /\ ret.rest = <<>>

---------------------------------------------------------------------------
(* Claims about patients without a diagnosis code.                         *)

\* C30: a patient of the batch whose DX_Code is missing or holds no code has
\* temp_dx_code '' and exactly one medical-necessity row, whose temp_dx_code
\* is ''; every patient of the batch has at least one medical-necessity row.
C30_EmptyCodeRow ==
    stage \in {"got", "done"} =>
        \A k \in 1..Len(ret.res.patient) :
            LET i == ret.res.patient[k].sharepoint_id
                rows == {j \in 1..Len(ret.res.med_nec) : ret.res.med_nec[j].sharepoint_id = i}
            IN  /\ rows # {}
                /\ standardize_dx_code(arg.export[i]["DX_Code"]) = Str(<<>>) =>
                       /\ Cardinality(rows) = 1
                       /\ \A j \in rows : ret.res.med_nec[j].temp_dx_code = Str(<<>>)
                /\ arg.export[i]["DX_Code"] \in {NaN, Str(<<"n", "/", "a">>)} =>
                       standardize_dx_code(arg.export[i]["DX_Code"]) = Str(<<>>)

\* A patient whose diagnosis field is empty passed the checks and has one
\* medical-necessity row, with the empty text as its code.
C30_Witness ==
    /\ stage = "got"
    /\ Len(arg.export) = 1
    /\ arg.export[1]["DX_Code"] = NaN
    /\ Len(ret.res.patient) = 1
    /\ Len(ret.res.med_nec) = 1
    /\ ret.res.med_nec[1].temp_dx_code = Str(<<>>)
    /\ ret.res.med_nec[1].sharepoint_id = 1

===========================================================================
